---- MODULE Spec2Model ----
(***************************************************************************)
(* A model of constitution-monitor (src/constitution-monitor/src):         *)
(*  - the paragraph diff engine of monitor.js: splitIntoParagraphs,        *)
(*    normalizeForMatching, findBestMatch, diffParagraphs, escapeHtml and  *)
(*    the loops of generateDiff, and its copy in backfill.js;              *)
(*  - the stored versions: runMonitor, saveVersion, updateChangelog and    *)
(*    the HTTP handlers of the server;                                     *)
(*  - the backfill of archived snapshots (backfill.js);                    *)
(*  - two runMonitor calls whose awaits interleave.                        *)
(*                                                                         *)
(* A JavaScript string is modelled as a sequence of one-character strings. *)
(***************************************************************************)
EXTENDS Integers, Sequences, FiniteSets, TLC

VARIABLES
    pc,           \* position inside generateDiff
    oldContent,   \* argument oldContent
    newContent,   \* argument newContent
    oldParas,     \* const oldParas
    newParas,     \* const newParas
    paragraphs,   \* const paragraphs = [] (the entries pushed so far)
    usedOld,      \* const usedOld = new Set()
    i,            \* loop index of the loop the program is in (0-based)
    match,        \* result of the last findBestMatch call
    diffResult,   \* result of the last diffParagraphs call
    summary,      \* result of generateDiffLLMSummary
    origin,       \* history: for every pushed entry, the paragraph it came from
    pairs,        \* history: the <<new index, old index>> pairs matched so far
    latest,       \* versions/latest.txt: its content, or Absent
    metadata,     \* versions/metadata.json: the versions array
    files,        \* the versions directory: each file name to its content
    changelog,    \* CHANGELOG.md: its sections, none before it is written
    env,          \* process.env: ANTHROPIC_API_KEY and MONITOR_API_KEY, and
                  \* the archive the Wayback Machine serves
    clock,        \* the time of the last run, in seconds
    last,         \* the last operation: its inputs and what it returned
    calls         \* the overlapping calls of runMonitor: the position and
                  \* the local variables of each

\* the variables of generateDiff
diffVars == <<pc, oldContent, newContent, oldParas, newParas, paragraphs, usedOld,
              i, match, diffResult, summary, origin, pairs>>

\* the stored files, the environment and the last operation
storeVars == <<latest, metadata, files, changelog, env, clock, last, calls>>

vars == <<pc, oldContent, newContent, oldParas, newParas, paragraphs, usedOld,
          i, match, diffResult, summary, origin, pairs,
          latest, metadata, files, changelog, env, clock, last, calls>>

----------------------------------------------------------------------------
(* Character classes of the regular expressions used by the code.          *)

\* [A-Z]
UpperChars == {"A", "B", "C", "D"}

\* the lower-case letters used by the inputs
LowerChars == {"a", "b", "c", "d", "e", "f", "g", "h", "k", "m", "n", "p", "q"}

\* \s
SpaceChars == {" ", "\n"}

\* [.!?]
TerminalChars == {".", "!", "?"}

\* \w is [A-Za-z0-9_]
IsWordChar(c) == c \in UpperChars \cup LowerChars \cup {"_", "0", "1"}

IsSpace(c) == c \in SpaceChars

\* String.prototype.toLowerCase on one character
LowerOf(c) ==
    CASE c = "A" -> "a"
      [] c = "B" -> "b"
      [] c = "C" -> "c"
      [] c = "D" -> "d"
      [] OTHER -> c

toLowerCase(s) == [k \in 1..Len(s) |-> LowerOf(s[k])]

----------------------------------------------------------------------------
(* Generic string helpers.                                                 *)

Min(S) == CHOOSE x \in S : \A y \in S : x <= y

RECURSIVE ConcatRange(_, _, _)
ConcatRange(ss, lo, hi) ==
    IF lo > hi THEN <<>>
    ELSE IF lo = hi THEN ss[lo]
    ELSE LET mid == (lo + hi) \div 2
         IN  ConcatRange(ss, lo, mid) \o ConcatRange(ss, mid + 1, hi)

\* the concatenation of a sequence of strings (array.join(''))
Concat(ss) == ConcatRange(ss, 1, Len(ss))

\* s.replace(/\s+/g, '') : drop every white-space character
StripSpace(s) == SelectSeq(s, LAMBDA c : ~IsSpace(c))

\* the last index of the white-space run that starts at p
RunEnd(s, p) ==
    LET after == {q \in p..Len(s) : ~IsSpace(s[q])}
    IN  IF after = {} THEN Len(s) ELSE Min(after) - 1

\* String.prototype.trim
trim(s) ==
    LET solid == {k \in 1..Len(s) : ~IsSpace(s[k])}
        tail  == {k \in 1..Len(s) : \A j \in k..Len(s) : IsSpace(s[j])}
    IN  IF solid = {} THEN <<>>
        ELSE SubSeq(s, Min(solid), Len(s) - Cardinality(tail))

----------------------------------------------------------------------------
(* splitIntoParagraphs                                                     *)

\* the soft cap on the length of a paragraph
ParagraphCap == 500

\* The start positions of the matches of /(?<=[.!?])\s+(?=[A-Z])/ : a
\* white-space run that follows a terminal character and is followed by an
\* upper-case letter.  \s+ is greedy and a shorter run is followed by white
\* space, so a match always covers the whole run.
Boundaries(text) ==
    {p \in 2..Len(text) :
        /\ text[p - 1] \in TerminalChars
        /\ IsSpace(text[p])
        /\ LET q == RunEnd(text, p)
           IN  q < Len(text) /\ text[q + 1] \in UpperChars}

RECURSIVE SplitAt(_, _, _)
\* the pieces of text from position from on, cut at the boundaries bs
SplitAt(text, from, bs) ==
    IF bs = {} THEN <<SubSeq(text, from, Len(text))>>
    ELSE LET p == Min(bs)
         IN  <<SubSeq(text, from, p - 1)>>
               \o SplitAt(text, RunEnd(text, p) + 1, bs \ {p})

\* text.split(/(?<=[.!?])\s+(?=[A-Z])/)
Sentences(text) == SplitAt(text, 1, Boundaries(text))

\* a test that looks at the length of the next sentence alone
sentenceExceedsCap(current, sentence) == Len(sentence) > ParagraphCap

\* current.length + sentence.length > 500
exceedsCap(current, sentence) == Len(current) + Len(sentence) > ParagraphCap

RECURSIVE GroupSentencesNoSpace(_, _, _)
\* the grouping loop with the sentences joined without the space
GroupSentencesNoSpace(sentences, current, paras) ==
    IF sentences = <<>>
    THEN IF trim(current) # <<>> THEN Append(paras, trim(current)) ELSE paras
    ELSE LET sentence == Head(sentences)
         IN  IF exceedsCap(current, sentence) /\ Len(current) > 0
             THEN GroupSentencesNoSpace(Tail(sentences), sentence,
                                        Append(paras, trim(current)))
             ELSE GroupSentencesNoSpace(Tail(sentences), current \o sentence, paras)

RECURSIVE GroupSentences(_, _, _)
\* the for loop of splitIntoParagraphs and the final push
GroupSentences(sentences, current, paras) ==
    IF sentences = <<>>
    THEN IF trim(current) # <<>> THEN Append(paras, trim(current)) ELSE paras
    ELSE LET sentence == Head(sentences)
         IN  IF exceedsCap(current, sentence) /\ Len(current) > 0
             THEN GroupSentences(Tail(sentences), sentence,
                                 Append(paras, trim(current)))
             ELSE GroupSentences(Tail(sentences),
                                 current \o (IF current # <<>> THEN <<" ">> ELSE <<>>)
                                         \o sentence,
                                 paras)

\* the grouping without the fallback to the whole text
splitWithoutFallback(text) == GroupSentences(Sentences(text), <<>>, <<>>)

splitIntoParagraphs(text) ==
    LET paras == GroupSentences(Sentences(text), <<>>, <<>>)
    IN  IF Len(paras) > 0 THEN paras ELSE <<text>>

----------------------------------------------------------------------------
(* normalizeForMatching and findBestMatch                                  *)

\* text.toLowerCase().replace(/[^\w\s]/g, '').replace(/\s+/g, ' ').trim()
normalizeForMatching(text) ==
    LET lower == toLowerCase(text)
        kept  == SelectSeq(lower, LAMBDA c : IsWordChar(c) \/ IsSpace(c))
        mark  == [k \in 1..Len(kept) |->
                    IF ~IsSpace(kept[k]) THEN kept[k]
                    ELSE IF k > 1 /\ IsSpace(kept[k - 1]) THEN "" ELSE " "]
    IN  trim(SelectSeq(mark, LAMBDA c : c # ""))

\* new Set(s.split(' ')) : the pieces of s between single spaces; the empty
\* string splits into one empty piece
WordSet(s) ==
    LET seps == {0, Len(s) + 1} \cup {k \in 1..Len(s) : s[k] = " "}
    IN  {SubSeq(s, p + 1, q - 1) :
            <<p, q>> \in {pq \in seps \X seps :
                            /\ pq[1] < pq[2]
                            /\ \A r \in seps : ~(pq[1] < r /\ r < pq[2])}}

\* the matching threshold 0.3, as a fraction
ThresholdNum == 3
ThresholdDen == 10

\* the score of one candidate: <<|intersection|, |union|>>
Score(paraWords, otherWords) ==
    <<Cardinality(paraWords \cap otherWords), Cardinality(paraWords \cup otherWords)>>

\* a / b > c / d for positive denominators
FracGt(x, y) == x[1] * y[2] > y[1] * x[2]

\* a threshold test that lets a score of exactly 0.3 pass
reachesThreshold(score) == ~FracGt(<<ThresholdNum, ThresholdDen>>, score)

\* score > 0.3
exceedsThreshold(score) == FracGt(score, <<ThresholdNum, ThresholdDen>>)

\* a test that lets a candidate replace the best one at an equal score
tiesBestScore(score, bestScore) == ~FracGt(bestScore, score)

\* score > bestScore
beatsBestScore(score, bestScore) == FracGt(score, bestScore)

RECURSIVE BestMatchLoop(_, _, _, _, _)
\* the for loop of findBestMatch from index k (0-based) on
BestMatchLoop(paraWords, paras, usedIndices, k, best) ==
    IF k >= Len(paras) THEN best
    ELSE IF k \in usedIndices
         THEN BestMatchLoop(paraWords, paras, usedIndices, k + 1, best)
         ELSE LET otherWords == WordSet(normalizeForMatching(paras[k + 1]))
                  score == Score(paraWords, otherWords)
              IN  IF beatsBestScore(score, best.score) /\ exceedsThreshold(score)
                  THEN BestMatchLoop(paraWords, paras, usedIndices, k + 1,
                                     [index |-> k, score |-> score])
                  ELSE BestMatchLoop(paraWords, paras, usedIndices, k + 1, best)

\* findBestMatch without the skip of the used indices
findBestMatchAnyIndex(para, paras, usedIndices) ==
    BestMatchLoop(WordSet(normalizeForMatching(para)), paras, {}, 0,
                  [index |-> -1, score |-> <<0, 1>>])

findBestMatch(para, paras, usedIndices) ==
    BestMatchLoop(WordSet(normalizeForMatching(para)), paras, usedIndices, 0,
                  [index |-> -1, score |-> <<0, 1>>])

----------------------------------------------------------------------------
(* escapeHtml                                                              *)

\* s.replace(/c/g, r) for a single character c
ReplaceChar(s, c, r) ==
    IF \A k \in 1..Len(s) : s[k] # c THEN s
    ELSE Concat([k \in 1..Len(s) |-> IF s[k] = c THEN r ELSE <<s[k]>>])

AmpEntity == <<"&", "a", "m", "p", ";">>
LtEntity == <<"&", "l", "t", ";">>
GtEntity == <<"&", "g", "t", ";">>

\* an escapeHtml without the replacement of <
escapeHtmlKeepLt(text) ==
    ReplaceChar(ReplaceChar(text, "&", AmpEntity), ">", GtEntity)

escapeHtml(text) ==
    ReplaceChar(ReplaceChar(ReplaceChar(text, "&", AmpEntity), "<", LtEntity),
                ">", GtEntity)

----------------------------------------------------------------------------
(* Diff.diffArrays of the diff package, as diffParagraphs calls it: Myers' *)
(* algorithm over the two token arrays with the given comparator.          *)
(* Positions are 0-based as in the package; oldPos = -1 is "before the     *)
(* first token".                                                           *)

\* word.toLowerCase().replace(/[^\w]/g, '')
normalizeWord(word) == SelectSeq(toLowerCase(word), IsWordChar)

\* a comparator that lowers the case of its second argument only
comparatorOneSided(a, b) == SelectSeq(a, IsWordChar) = normalizeWord(b)

\* comparator: (a, b) => normalizeWord(a) === normalizeWord(b)
comparator(a, b) == normalizeWord(a) = normalizeWord(b)

RECURSIVE SplitKeep(_)
\* para.split(/(\s+)/) : the white-space runs are kept as tokens
SplitKeep(s) ==
    LET spaces == {k \in 1..Len(s) : IsSpace(s[k])}
    IN  IF spaces = {} THEN <<s>>
        ELSE LET p == Min(spaces)
                 q == RunEnd(s, p)
             IN  <<SubSeq(s, 1, p - 1), SubSeq(s, p, q)>>
                   \o SplitKeep(SubSeq(s, q + 1, Len(s)))

\* an unset slot of bestPath
NoPath == [set |-> FALSE, oldPos |-> -1, ops |-> <<>>]

RECURSIVE extractCommon(_, _, _, _)
\* follow the diagonal as long as the tokens compare equal
extractCommon(basePath, newString, oldString, diagonalPath) ==
    LET oldPos == basePath.oldPos
        newPos == oldPos - diagonalPath
    IN  IF /\ newPos + 1 < Len(newString)
           /\ oldPos + 1 < Len(oldString)
           /\ comparator(oldString[oldPos + 2], newString[newPos + 2])
        THEN extractCommon([basePath EXCEPT !.oldPos = oldPos + 1,
                                            !.ops = Append(@, "=")],
                           newString, oldString, diagonalPath)
        ELSE basePath

\* addToPath(path, added, removed, oldPosInc)
addToPath(path, op, oldPosInc) ==
    [set |-> TRUE, oldPos |-> path.oldPos + oldPosInc, ops |-> Append(path.ops, op)]

RECURSIVE diagonalLoop(_, _, _, _, _, _, _)
\* the for loop of execEditLength from diagonal diagonalPath on: done and
\* the edit script of the finished path, one of "=", "+", "-" per token,
\* or the paths and the diagonals to consider after the loop
diagonalLoop(oldString, newString, editLength, diagonalPath, bestPath, minD, maxD) ==
    LET oldLen == Len(oldString)
        newLen == Len(newString)
        hi == IF maxD < editLength THEN maxD ELSE editLength
    IN  IF diagonalPath > hi
        THEN [done |-> FALSE, ops |-> <<>>, bestPath |-> bestPath,
              minD |-> minD, maxD |-> maxD]
        ELSE LET removePath == bestPath[diagonalPath - 1]
                 addPath    == bestPath[diagonalPath + 1]
                 cleared    == IF removePath.set
                               THEN [bestPath EXCEPT ![diagonalPath - 1] = NoPath]
                               ELSE bestPath
                 addPathNewPos == addPath.oldPos - diagonalPath
                 canAdd    == addPath.set /\ 0 <= addPathNewPos /\ addPathNewPos < newLen
                 canRemove == removePath.set /\ removePath.oldPos + 1 < oldLen
             IN  IF ~canAdd /\ ~canRemove
                 THEN diagonalLoop(oldString, newString, editLength, diagonalPath + 2,
                                   [cleared EXCEPT ![diagonalPath] = NoPath], minD, maxD)
                 ELSE LET branched ==
                            IF ~canRemove \/ (canAdd /\ removePath.oldPos < addPath.oldPos)
                            THEN addToPath(addPath, "+", 0)
                            ELSE addToPath(removePath, "-", 1)
                          basePath == extractCommon(branched, newString, oldString,
                                                    diagonalPath)
                          newPos == basePath.oldPos - diagonalPath
                          nextMinD == IF newPos + 1 >= newLen /\ diagonalPath + 1 > minD
                                      THEN diagonalPath + 1 ELSE minD
                          nextMaxD == IF basePath.oldPos + 1 >= oldLen
                                         /\ diagonalPath - 1 < maxD
                                      THEN diagonalPath - 1 ELSE maxD
                      IN  IF basePath.oldPos + 1 >= oldLen /\ newPos + 1 >= newLen
                          THEN [done |-> TRUE, ops |-> basePath.ops, bestPath |-> bestPath,
                                minD |-> minD, maxD |-> maxD]
                          ELSE diagonalLoop(oldString, newString, editLength,
                                            diagonalPath + 2,
                                            [cleared EXCEPT ![diagonalPath] = basePath],
                                            IF nextMinD = minD THEN minD ELSE nextMinD,
                                            IF nextMaxD = maxD THEN maxD ELSE nextMaxD)

RECURSIVE execEditLength(_, _, _, _, _, _)
\* the while loop around execEditLength; the result is the edit script, or
\* nothing once editLength exceeds maxEditLength
execEditLength(oldString, newString, editLength, bestPath, minD, maxD) ==
    IF editLength > Len(newString) + Len(oldString) THEN <<>>
    ELSE LET from == IF minD > -editLength THEN minD ELSE -editLength
             loop == diagonalLoop(oldString, newString, editLength, from,
                                  bestPath, minD, maxD)
         IN  IF loop.done THEN loop.ops
             ELSE execEditLength(oldString, newString, editLength + 1,
                                 loop.bestPath, loop.minD, loop.maxD)

\* the edit script diffArrays settles on
EditScript(oldString, newString) ==
    LET span == Len(oldString) + Len(newString) + 1
        seed == extractCommon([set |-> TRUE, oldPos |-> -1, ops |-> <<>>],
                              newString, oldString, 0)
    IN  IF seed.oldPos + 1 >= Len(oldString) /\ seed.oldPos + 1 >= Len(newString)
        THEN seed.ops
        ELSE execEditLength(oldString, newString, 1,
                            [d \in -(span + 1)..(span + 1) |->
                                IF d = 0 THEN seed ELSE NoPath],
                            -span, span)

RECURSIVE buildValuesFromOld(_, _, _, _, _)
\* change objects whose common runs carry the tokens of the old array
buildValuesFromOld(ops, k, newString, oldString, pos) ==
    IF k > Len(ops) THEN <<>>
    ELSE LET op == ops[k]
             other == {j \in k..Len(ops) : ops[j] # op}
             count == IF other = {} THEN Len(ops) - k + 1 ELSE Min(other) - k
             part ==
               IF op = "+"
               THEN [added |-> TRUE, removed |-> FALSE,
                     value |-> SubSeq(newString, pos.new + 1, pos.new + count)]
               ELSE [added |-> FALSE, removed |-> op = "-",
                     value |-> SubSeq(oldString, pos.old + 1, pos.old + count)]
             next ==
               [old |-> IF op = "+" THEN pos.old ELSE pos.old + count,
                new |-> IF op = "-" THEN pos.new ELSE pos.new + count]
         IN  <<part>> \o buildValuesFromOld(ops, k + count, newString, oldString, next)

RECURSIVE buildValues(_, _, _, _, _)
\* the change objects: maximal runs of one operation, with the tokens of
\* the new array for common and added runs, of the old array for removed
buildValues(ops, k, newString, oldString, pos) ==
    IF k > Len(ops) THEN <<>>
    ELSE LET op == ops[k]
             other == {j \in k..Len(ops) : ops[j] # op}
             count == IF other = {} THEN Len(ops) - k + 1 ELSE Min(other) - k
             part ==
               IF op = "-"
               THEN [added |-> FALSE, removed |-> TRUE,
                     value |-> SubSeq(oldString, pos.old + 1, pos.old + count)]
               ELSE [added |-> op = "+", removed |-> FALSE,
                     value |-> SubSeq(newString, pos.new + 1, pos.new + count)]
             next ==
               [old |-> IF op = "+" THEN pos.old ELSE pos.old + count,
                new |-> IF op = "-" THEN pos.new ELSE pos.new + count]
         IN  <<part>> \o buildValues(ops, k + count, newString, oldString, next)

diffArrays(oldWords, newWords) ==
    buildValues(EditScript(oldWords, newWords), 1, newWords, oldWords,
                [old |-> 0, new |-> 0])

----------------------------------------------------------------------------
(* diffParagraphs                                                          *)

AddOpen == <<"<", "a", "d", "d", ">">>
AddClose == <<"<", "/", "a", "d", "d", ">">>
DelOpen == <<"<", "d", "e", "l", ">">>
DelClose == <<"<", "/", "d", "e", "l", ">">>

\* the replacement threshold 0.5, as a fraction
ReplaceNum == 1
ReplaceDen == 2

RECURSIVE PartLoop(_, _, _)
\* the for loop over the change objects; acc holds html, hasRealChanges,
\* unchangedChars and totalChars
PartLoop(changes, k, acc) ==
    IF k > Len(changes) THEN acc
    ELSE LET part == changes[k]
             text == Concat(part.value)
             trimmedLen == Len(StripSpace(text))
             next ==
               IF part.added
               THEN IF trim(text) # <<>>
                    THEN [acc EXCEPT !.html = @ \o AddOpen \o escapeHtml(text) \o AddClose,
                                     !.hasRealChanges = TRUE,
                                     !.totalChars = @ + trimmedLen]
                    ELSE [acc EXCEPT !.html = @ \o text]
               ELSE IF part.removed
               THEN IF trim(text) # <<>>
                    THEN [acc EXCEPT !.html = @ \o DelOpen \o escapeHtml(text) \o DelClose,
                                     !.hasRealChanges = TRUE,
                                     !.totalChars = @ + trimmedLen]
                    ELSE acc
               ELSE [acc EXCEPT !.html = @ \o escapeHtml(text),
                                !.unchangedChars = @ + trimmedLen,
                                !.totalChars = @ + trimmedLen]
         IN  PartLoop(changes, k + 1, next)

\* the local variables of diffParagraphs after its loop
DiffTotals(oldPara, newPara) ==
    PartLoop(diffArrays(SplitKeep(oldPara), SplitKeep(newPara)), 1,
             [html |-> <<>>, hasRealChanges |-> FALSE,
              unchangedChars |-> 0, totalChars |-> 0])

\* a classification that counts a ratio of exactly 0.5 as a replacement
IsReplacementAtHalf(t) ==
    /\ t.hasRealChanges
    /\ t.totalChars > 0
    /\ t.unchangedChars * ReplaceDen <= ReplaceNum * t.totalChars

\* hasRealChanges && unchangedRatio < 0.5, the ratio being 1 when
\* totalChars is 0
IsReplacement(t) ==
    /\ t.hasRealChanges
    /\ t.totalChars > 0
    /\ t.unchangedChars * ReplaceDen < ReplaceNum * t.totalChars

\* a diffParagraphs that reports a change whenever the rendering is not
\* the escaped old paragraph
diffParagraphsByText(oldPara, newPara) ==
    LET t == DiffTotals(oldPara, newPara)
    IN  [type |-> IF IsReplacement(t) THEN "replaced" ELSE "changed",
         html |-> t.html,
         hasChanges |-> t.html # escapeHtml(oldPara),
         oldContent |-> escapeHtml(oldPara),
         newContent |-> escapeHtml(newPara)]

diffParagraphs(oldPara, newPara) ==
    LET t == DiffTotals(oldPara, newPara)
    IN  [type |-> IF IsReplacement(t) THEN "replaced" ELSE "changed",
         html |-> t.html,
         hasChanges |-> t.hasRealChanges,
         oldContent |-> escapeHtml(oldPara),
         newContent |-> escapeHtml(newPara)]

----------------------------------------------------------------------------
(* The inputs: pairs <<oldContent, newContent>> drawn from bounded         *)
(* families of texts.                                                      *)

\* the longest sequence of pieces a short text is made of
MaxPieces == 2

\* the pieces short texts are made of: words, a sentence end, the
\* characters escapeHtml replaces, white space
Pieces ==
    { <<"b", " ">>, <<"A", ">", ".", " ">>, <<"B", "<">>, <<"&">>, <<" ">> }

RECURSIVE PieceSeqs(_, _)
\* the sequences of at most n elements of the set ps
PieceSeqs(ps, n) ==
    IF n = 0 THEN {<<>>}
    ELSE LET shorter == PieceSeqs(ps, n - 1)
         IN  shorter \cup {Append(sq, p) : sq \in shorter, p \in ps}

ShortTexts == {Concat(sq) : sq \in PieceSeqs(Pieces, MaxPieces)}

\* the pairs of a sequence of at most n elements of old and one of at most
\* n elements of new that have at most n + 2 elements together
SeqPairs(old, new, n) ==
    {p \in PieceSeqs(old, n) \X PieceSeqs(new, n) : Len(p[1]) + Len(p[2]) <= n + 2}

ShortPairs ==
    {<<Concat(p[1]), Concat(p[2])>> : p \in SeqPairs(Pieces, Pieces, MaxPieces)}

\* the number of distinct one-letter words of the word-range texts
MaxWords == 10

WordLetters == <<"c", "d", "e", "f", "g", "h", "k", "m", "n", "p", "q", "a", "b">>

\* the words lo..hi, separated by one space
RangeText(lo, hi) ==
    Concat([k \in 1..(hi - lo + 1) |->
              IF k = 1 THEN <<WordLetters[lo]>> ELSE <<" ", WordLetters[lo + k - 1]>>])

\* an old text of the first a words against a new text of the words b..c
WordPairs ==
    {<<RangeText(1, a), RangeText(bc[1], bc[2])>> :
        a \in 1..MaxWords,
        bc \in {x \in (1..MaxWords) \X (1..MaxWords) : x[1] <= x[2]}}

\* the number of words of the texts that differ in form only
MaxVarWords == 3

VarLetters == <<"a", "b", "c", "d">>
Forms == {"plain", "upper", "comma", "stop"}
Separators == {<<" ">>, <<" ", "\n">>}

UpperOf(c) ==
    CASE c = "a" -> "A"
      [] c = "b" -> "B"
      [] c = "c" -> "C"
      [] c = "d" -> "D"
      [] OTHER -> c

FormOf(letter, form) ==
    CASE form = "upper" -> <<UpperOf(letter)>>
      [] form = "comma" -> <<letter, ",">>
      [] form = "stop" -> <<letter, ".">>
      [] OTHER -> <<letter>>

\* n words, the word at position at written in form, the gap after word
\* gap filled with sep, every other word plain and every other gap one space
VariantText(n, at, form, gap, sep) ==
    Concat([k \in 1..n |->
              (IF k = 1 THEN <<>> ELSE IF k - 1 = gap THEN sep ELSE <<" ">>)
                \o FormOf(VarLetters[k], IF k = at THEN form ELSE "plain")])

VariantTexts(n) ==
    {VariantText(n, at, form, gap, sep) :
        at \in 1..n, form \in Forms, gap \in 1..n, sep \in Separators}

VariantPairs ==
    UNION {VariantTexts(n) \X VariantTexts(n) : n \in 1..MaxVarWords}

\* the longest sequence of sentences a long text is made of
MaxSentences == 2

\* a sentence too long to share a paragraph with another one like it: one
\* word and a full stop, ParagraphCap \div 2 + 1 characters
LongSentence(first, letter) ==
    <<first>> \o [k \in 1..((ParagraphCap \div 2) - 1) |-> letter] \o <<".">>

\* a sentence of the same length without any word character
LongPunctuation == [k \in 1..((ParagraphCap \div 2) + 1) |-> "?"]

OldLongSentences ==
    { LongSentence("A", "a"), LongSentence("a", "a"), LongPunctuation }

NewLongSentences ==
    { LongSentence("A", "a"), LongSentence("B", "b"), LongPunctuation }

RECURSIVE JoinWithSpace(_)
JoinWithSpace(sq) ==
    IF Len(sq) = 0 THEN <<>>
    ELSE IF Len(sq) = 1 THEN sq[1]
    ELSE sq[1] \o <<" ">> \o JoinWithSpace(Tail(sq))

LongTexts(sentences) ==
    {JoinWithSpace(sq) : sq \in PieceSeqs(sentences, MaxSentences) \ {<<>>}}

LongPairs ==
    {<<JoinWithSpace(p[1]), JoinWithSpace(p[2])>> :
        p \in {q \in SeqPairs(OldLongSentences, NewLongSentences, MaxSentences) :
                  q[1] # <<>> /\ q[2] # <<>>}}

\* a sentence of half the cap: two of them have the length of the cap
\* together, before the space that joins them
HalfCapSentence(first, letter) ==
    <<first>> \o [k \in 1..((ParagraphCap \div 2) - 2) |-> letter] \o <<".">>

\* texts of two and of three such sentences
HalfCapTexts ==
    { JoinWithSpace(<<HalfCapSentence("A", "a"), HalfCapSentence("B", "b")>>),
      JoinWithSpace(<<HalfCapSentence("A", "a"), HalfCapSentence("B", "b"),
                      HalfCapSentence("A", "a")>>) }

HalfCapPairs == HalfCapTexts \X HalfCapTexts

\* a sentence of a long word and the given short words, long enough not to
\* share a paragraph with another one like it
PaddedSentence(words) ==
    <<"A">> \o [k \in 1..((ParagraphCap \div 2) - 5) |-> "a"]
        \o Concat([k \in 1..Len(words) |-> <<" ", words[k]>>]) \o <<".">>

\* two old paragraphs that score the same against the first new paragraph,
\* the first of them being the second new paragraph
OrderPairs ==
    { << JoinWithSpace(<<PaddedSentence(<<"e", "f", "g">>),
                         PaddedSentence(<<"e", "f", "h">>)>>),
         JoinWithSpace(<<PaddedSentence(<<"e", "f">>),
                         PaddedSentence(<<"e", "f", "g">>)>>) >> }

Inputs ==
    ShortPairs \cup WordPairs \cup VariantPairs \cup LongPairs
        \cup HalfCapPairs \cup OrderPairs

----------------------------------------------------------------------------
(* generateDiff as a state machine: one step per loop iteration.           *)

NoMatch == [index |-> -1, score |-> <<0, 1>>]
NoDiff == [type |-> "none", html |-> <<>>, hasChanges |-> FALSE,
           oldContent |-> <<>>, newContent |-> <<>>]
Null == "null"

\* what generateDiffLLMSummary can resolve to: null (no key, failed
\* request, non-OK response) or the text of the reply
SummaryOutcomes == {Null, "summary text"}

\* a file that does not exist, a variable that is not set
Absent == "absent"

\* CHANGELOG.md before it is written
NoChangelog == <<>>

\* the number of runs of runMonitor a behaviour can hold
MaxRuns == 2

\* the archive of the Wayback Machine: the text extractContent gets from
\* each daily snapshot, the oldest first (selectDailySnapshots keeps the
\* earliest snapshot of each day and sorts them)
Archive == <<"A", "B">>

\* an archive in which a text comes back
LongArchive == <<"A", "B", "A">>

\* the times of the archived snapshots, which lie before the live runs
SnapshotTimes == (-Len(env.archive))..(-1)

\* the page texts a fetch can extract: no text at all, or one of two texts
Contents == {"", "A", "B"}

\* getContentHash: the first 12 hex digits of the SHA-256 digest; different
\* contents of the model have different hashes
getContentHash(content) == <<"sha", content>>

Hashes == {getContentHash(c) : c \in Contents}

\* `${safeTimestamp}_${versionHash}.txt` and the .diff file next to it
FileName(timestamp, hash, ext) == <<timestamp, hash, ext>>

\* fs.writeFile: the files fs with content written to the file name
writeFile(fs, name, content) ==
    [n \in DOMAIN fs \cup {name} |-> IF n = name THEN content ELSE fs[n]]

\* no file of the versions directory exists and there is no changelog
FreshStore ==
    /\ latest = Absent
    /\ metadata = <<>>
    /\ files = [n \in {} |-> ""]
    /\ changelog = NoChangelog
    /\ clock = 0
    /\ last = [op |-> "none"]
    /\ calls = <<>>

Init ==
    /\ pc = "start"
    /\ \E input \in Inputs : oldContent = input[1] /\ newContent = input[2]
    /\ oldParas = <<>>
    /\ newParas = <<>>
    /\ paragraphs = <<>>
    /\ usedOld = {}
    /\ i = 0
    /\ match = NoMatch
    /\ diffResult = NoDiff
    /\ summary = Null
    /\ origin = <<>>
    /\ pairs = <<>>
    /\ FreshStore
    /\ env = [anthropic |-> FALSE, monitorKey |-> Absent, archive |-> Archive]

\* lines 700-704: segment both texts, start with no entry and no used index
Split ==
    /\ pc = "start"
    /\ oldParas' = splitIntoParagraphs(oldContent)
    /\ newParas' = splitIntoParagraphs(newContent)
    /\ paragraphs' = <<>>
    /\ usedOld' = {}
    /\ i' = 0
    /\ pc' = "match"
    /\ UNCHANGED <<oldContent, newContent, match, diffResult, summary, origin, pairs>>
    /\ UNCHANGED storeVars

\* Array.prototype.unshift
Unshift(array, entry) == <<entry>> \o array

\* Array.prototype.push
Push(array, entry) == Append(array, entry)

\* the entry a matched pair pushes, if any (lines 717-727)
PairEntries(d) ==
    IF ~d.hasChanges THEN <<>>
    ELSE IF d.type = "replaced"
         THEN <<[type |-> "replaced", oldContent |-> d.oldContent,
                 newContent |-> d.newContent]>>
         ELSE <<[type |-> "changed", content |-> d.html]>>

\* one iteration of the loop of lines 707-731
MatchParagraph ==
    /\ pc = "match"
    /\ i < Len(newParas)
    /\ LET newPara == newParas[i + 1]
           m == findBestMatch(newPara, oldParas, usedOld)
       IN  /\ match' = m
           /\ IF m.index >= 0
              THEN LET d == diffParagraphs(oldParas[m.index + 1], newPara)
                       pushed == PairEntries(d)
                   IN  /\ usedOld' = usedOld \cup {m.index}
                       /\ diffResult' = d
                       /\ IF pushed = <<>>
                          THEN UNCHANGED <<paragraphs, origin>>
                          ELSE /\ paragraphs' = Push(paragraphs, pushed[1])
                               /\ origin' = Push(origin, [side |-> "new", index |-> i])
                       /\ pairs' = Append(pairs, <<i, m.index>>)
              ELSE /\ paragraphs' = Push(paragraphs,
                                         [type |-> "added", content |-> escapeHtml(newPara)])
                   /\ origin' = Push(origin, [side |-> "new", index |-> i])
                   /\ UNCHANGED <<usedOld, diffResult, pairs>>
    /\ IF i + 1 < Len(newParas)
       THEN i' = i + 1 /\ pc' = "match"
       ELSE i' = 0 /\ pc' = "removed"
    /\ UNCHANGED <<oldContent, newContent, oldParas, newParas, summary>>
    /\ UNCHANGED storeVars

\* a test that takes every old paragraph for unconsumed
isAnyIndex(usedIndices, k) == TRUE

\* !usedOld.has(i)
isUnused(usedIndices, k) == k \notin usedIndices

\* one iteration of the loop of lines 734-738
RemoveParagraph ==
    /\ pc = "removed"
    /\ i < Len(oldParas)
    /\ IF isUnused(usedOld, i)
       THEN /\ paragraphs' = Push(paragraphs,
                                  [type |-> "removed", content |-> escapeHtml(oldParas[i + 1])])
            /\ origin' = Push(origin, [side |-> "old", index |-> i])
       ELSE UNCHANGED <<paragraphs, origin>>
    /\ IF i + 1 < Len(oldParas)
       THEN i' = i + 1 /\ pc' = "removed"
       ELSE i' = 0 /\ pc' = "summary"
    /\ UNCHANGED <<oldContent, newContent, oldParas, newParas, usedOld, match,
                   diffResult, summary, pairs>>
    /\ UNCHANGED storeVars

\* lines 741-746: await the summary, return the summary and the entries
Summarize ==
    /\ pc = "summary"
    /\ summary' \in SummaryOutcomes
    /\ pc' = "done"
    /\ UNCHANGED <<oldContent, newContent, oldParas, newParas, paragraphs, usedOld,
                   i, match, diffResult, origin, pairs>>
    /\ UNCHANGED storeVars

Next == Split \/ MatchParagraph \/ RemoveParagraph \/ Summarize

Spec == Init /\ [][Next]_vars

----------------------------------------------------------------------------
(* The copy of the diff engine in backfill.js, each function as a whole.   *)
(* It calls the same diffArrays of the diff package.                       *)

\* word.toLowerCase().replace(/[^\w]/g, '')
backfill_normalizeWord(word) == SelectSeq(toLowerCase(word), IsWordChar)

RECURSIVE backfill_GroupSentences(_, _, _)
\* the for loop of splitIntoParagraphs and the final push
backfill_GroupSentences(sentences, current, paras) ==
    IF sentences = <<>>
    THEN IF trim(current) # <<>> THEN Append(paras, trim(current)) ELSE paras
    ELSE LET sentence == Head(sentences)
         IN  IF Len(current) + Len(sentence) > 500 /\ Len(current) > 0
             THEN backfill_GroupSentences(Tail(sentences), sentence,
                                          Append(paras, trim(current)))
             ELSE backfill_GroupSentences(Tail(sentences),
                      current \o (IF current # <<>> THEN <<" ">> ELSE <<>>) \o sentence,
                      paras)

backfill_splitIntoParagraphs(text) ==
    LET paras == backfill_GroupSentences(SplitAt(text, 1, Boundaries(text)), <<>>, <<>>)
    IN  IF Len(paras) > 0 THEN paras ELSE <<text>>

\* text.toLowerCase().replace(/[^\w\s]/g, '').replace(/\s+/g, ' ').trim()
backfill_normalizeForMatching(text) ==
    LET kept == SelectSeq(toLowerCase(text), LAMBDA c : IsWordChar(c) \/ IsSpace(c))
        runs == SplitKeep(kept)
    IN  trim(Concat([k \in 1..Len(runs) |-> IF k % 2 = 0 THEN <<" ">> ELSE runs[k]]))

RECURSIVE backfill_BestMatchLoop(_, _, _, _, _)
\* the for loop of findBestMatch from index k (0-based) on
backfill_BestMatchLoop(paraWords, paras, usedIndices, k, best) ==
    IF k >= Len(paras) THEN best
    ELSE IF k \in usedIndices
         THEN backfill_BestMatchLoop(paraWords, paras, usedIndices, k + 1, best)
         ELSE LET otherWords == WordSet(backfill_normalizeForMatching(paras[k + 1]))
                  intersection == Cardinality(paraWords \cap otherWords)
                  union == Cardinality(paraWords \cup otherWords)
              IN  IF /\ intersection * best.score[2] > best.score[1] * union
                     /\ intersection * 10 > 3 * union
                  THEN backfill_BestMatchLoop(paraWords, paras, usedIndices, k + 1,
                           [index |-> k, score |-> <<intersection, union>>])
                  ELSE backfill_BestMatchLoop(paraWords, paras, usedIndices, k + 1, best)

\* a findBestMatch that takes any candidate with a word in common
backfill_findAnyMatch(para, paras, usedIndices) ==
    LET paraWords == WordSet(backfill_normalizeForMatching(para))
        found == {k \in 0..(Len(paras) - 1) :
                    /\ k \notin usedIndices
                    /\ paraWords \cap WordSet(backfill_normalizeForMatching(paras[k + 1])) # {}}
    IN  IF found = {} THEN [index |-> -1, score |-> <<0, 1>>]
        ELSE [index |-> Min(found),
              score |-> Score(paraWords,
                              WordSet(backfill_normalizeForMatching(paras[Min(found) + 1])))]

backfill_findBestMatch(para, paras, usedIndices) ==
    backfill_BestMatchLoop(WordSet(backfill_normalizeForMatching(para)), paras,
                           usedIndices, 0, [index |-> -1, score |-> <<0, 1>>])

backfill_escapeHtml(text) ==
    ReplaceChar(ReplaceChar(ReplaceChar(text, "&", AmpEntity), "<", LtEntity),
                ">", GtEntity)

RECURSIVE backfill_PartLoop(_, _, _)
\* the for loop of diffParagraphs over the change objects
backfill_PartLoop(changes, k, acc) ==
    IF k > Len(changes) THEN acc
    ELSE LET part == changes[k]
             text == Concat(part.value)
             trimmedLen == Len(StripSpace(text))
             marked(open, close) ==
                 [acc EXCEPT !.html = @ \o open \o backfill_escapeHtml(text) \o close,
                             !.hasRealChanges = TRUE,
                             !.totalChars = @ + trimmedLen]
             next ==
               CASE part.added /\ trim(text) # <<>> -> marked(AddOpen, AddClose)
                 [] part.added /\ trim(text) = <<>> -> [acc EXCEPT !.html = @ \o text]
                 [] ~part.added /\ part.removed /\ trim(text) # <<>> ->
                        marked(DelOpen, DelClose)
                 [] ~part.added /\ part.removed /\ trim(text) = <<>> -> acc
                 [] OTHER -> [acc EXCEPT !.html = @ \o backfill_escapeHtml(text),
                                         !.unchangedChars = @ + trimmedLen,
                                         !.totalChars = @ + trimmedLen]
         IN  backfill_PartLoop(changes, k + 1, next)

\* the comparator diffParagraphs passes is that of diffArrays above:
\* normalizeWord is the same function in both files
backfill_diffParagraphs(oldPara, newPara) ==
    LET t == backfill_PartLoop(diffArrays(SplitKeep(oldPara), SplitKeep(newPara)), 1,
                               [html |-> <<>>, hasRealChanges |-> FALSE,
                                unchangedChars |-> 0, totalChars |-> 0])
        isReplacement ==
            /\ t.hasRealChanges
            /\ t.totalChars > 0
            /\ 2 * t.unchangedChars < t.totalChars
    IN  [type |-> IF isReplacement THEN "replaced" ELSE "changed",
         html |-> t.html,
         hasChanges |-> t.hasRealChanges,
         oldContent |-> backfill_escapeHtml(oldPara),
         newContent |-> backfill_escapeHtml(newPara)]

RECURSIVE backfill_MatchLoop(_, _, _, _, _)
\* the first loop of generateDiff from index k (0-based) on; the result is
\* the entries pushed and the old indices used
backfill_MatchLoop(oldPs, newPs, k, entries, used) ==
    IF k >= Len(newPs) THEN [paragraphs |-> entries, usedOld |-> used]
    ELSE LET newPara == newPs[k + 1]
             m == backfill_findBestMatch(newPara, oldPs, used)
         IN  IF m.index >= 0
             THEN LET d == backfill_diffParagraphs(oldPs[m.index + 1], newPara)
                      pushed ==
                        IF ~d.hasChanges THEN entries
                        ELSE IF d.type = "replaced"
                             THEN Append(entries,
                                         [type |-> "replaced", oldContent |-> d.oldContent,
                                          newContent |-> d.newContent])
                             ELSE Append(entries, [type |-> "changed", content |-> d.html])
                  IN  backfill_MatchLoop(oldPs, newPs, k + 1, pushed, used \cup {m.index})
             ELSE backfill_MatchLoop(oldPs, newPs, k + 1,
                      Append(entries, [type |-> "added",
                                       content |-> backfill_escapeHtml(newPara)]),
                      used)

RECURSIVE backfill_RemovedLoop(_, _, _, _)
\* the second loop of generateDiff from index k (0-based) on
backfill_RemovedLoop(oldPs, used, k, entries) ==
    IF k >= Len(oldPs) THEN entries
    ELSE backfill_RemovedLoop(oldPs, used, k + 1,
             IF k \notin used
             THEN Append(entries, [type |-> "removed",
                                   content |-> backfill_escapeHtml(oldPs[k + 1])])
             ELSE entries)

\* the paragraphs of the JSON generateDiff of backfill.js returns
backfill_generateDiff(old, new) ==
    LET oldPs == backfill_splitIntoParagraphs(old)
        newPs == backfill_splitIntoParagraphs(new)
        matched == backfill_MatchLoop(oldPs, newPs, 0, <<>>, {})
    IN  backfill_RemovedLoop(oldPs, matched.usedOld, 0, matched.paragraphs)

----------------------------------------------------------------------------
(* The stored versions: runMonitor, the backfill script, getDiff and the   *)
(* two POST routes of the server, one step per call.  A page text is one   *)
(* of Contents; it holds no line break, because fetchConstitution and      *)
(* extractContent collapse every white-space run to one space.             *)

\* the sections of CHANGELOG.md, the text between two '---' lines; the
\* changelog is the sequence of its sections, none for no file
Header == [kind |-> "header"]
End == [kind |-> "end"]
HistoricalHeading == [kind |-> "historical heading"]
LiveHeading == [kind |-> "live heading"]

\* content.split('\n').filter(l => l.trim()) as a set
Lines(content) == IF content = "" THEN {} ELSE {content}

\* at most the first five lines of a set of lines, which holds one at most
Preview(lines) == IF lines = {} THEN <<>> ELSE <<CHOOSE l \in lines : TRUE>>

generateDiffSummary(old, new) ==
    LET added == Lines(new) \ Lines(old)
        removed == Lines(old) \ Lines(new)
    IN  [linesAdded |-> Cardinality(added), linesRemoved |-> Cardinality(removed),
         addedPreview |-> Preview(added), removedPreview |-> Preview(removed)]

\* what generateDiffLLMSummary resolves to in the environment e
LlmOutcomes(e) == IF e.anthropic THEN SummaryOutcomes ELSE {Null}

\* the summary of one request among several, summarized being the requests
\* that get a reply
LlmSummary(summarized, k) == IF k \in summarized THEN "summary text" ELSE Null

\* the sets of requests that can get a reply in the environment e
Summarizable(e, requests) == IF e.anthropic THEN SUBSET requests ELSE {{}}

\* JSON.stringify({ summary, paragraphs }) of generateDiff(old, new); the
\* pair <<old, new>> stands for the entries generateDiff computes for it
DiffFile(old, new, llmSummary) == [summary |-> llmSummary, paragraphs |-> <<old, new>>]

\* the entry updateChangelog builds
ChangeEntry(timestamp, versionHash, diffSummary, llmSummary) ==
    [kind |-> "change", timestamp |-> timestamp, hash |-> versionHash,
     summarySection |-> IF llmSummary # Null THEN <<llmSummary>> ELSE <<>>,
     linesAdded |-> diffSummary.linesAdded, linesRemoved |-> diffSummary.linesRemoved,
     additions |-> diffSummary.addedPreview, removals |-> diffSummary.removedPreview]

\* the file updateChangelog writes: the entry goes right after the header
\* of an existing changelog that holds a '---', else after a new header
updateChangelog(existing, entry) ==
    IF Len(existing) >= 2
    THEN <<existing[1], entry>> \o Tail(existing)
    ELSE <<Header, entry, End>>

\* the changelog the first run writes
InitialChangelog(timestamp, hash) ==
    <<Header, [kind |-> "initial", timestamp |-> timestamp, hash |-> hash], End>>

\* the metadata entry of a version
VersionEntry(timestamp, hash) ==
    [timestamp |-> timestamp, hash |-> hash, file |-> FileName(timestamp, hash, "txt")]

\* a saveVersion that puts the new entry in front
unshiftVersion(versions, entry) == <<entry>> \o versions

\* metadata.versions.push({ timestamp, hash, file }) of saveVersion
pushVersion(versions, entry) == Append(versions, entry)

\* !previousContent: no latest.txt, or an empty one
NoPreviousContent(previousContent) == previousContent = Absent \/ previousContent = ""

\* a summary that is the text of the model only
SummaryOnly(llmSummary, diffSummary) == <<llmSummary>>

\* llmSummary || `Changes detected: +${linesAdded}/-${linesRemoved} lines`
ReturnedSummary(llmSummary, diffSummary) ==
    IF llmSummary # Null THEN <<llmSummary>>
    ELSE <<"Changes detected: +", diffSummary.linesAdded, "/-",
           diffSummary.linesRemoved, " lines">>

\* runMonitor for the fetched text currentContent, llm being what the
\* summary request of generateDiff resolves to; request is the HTTP request
\* the run answers, if any.  last keeps what the run returned and, for a
\* run that called generateDiff, what the summary request resolved to
runMonitor(request, currentContent, llm) ==
    LET currentHash == getContentHash(currentContent)
        timestamp == clock + 1
        previousContent == latest
        txt == FileName(timestamp, currentHash, "txt")
        diffName == FileName(timestamp, currentHash, "diff")
        diffSummary == generateDiffSummary(previousContent, currentContent)
        answer(result) == [op |-> "monitor", request |-> request, status |-> 200,
                           result |-> result]
    IN  /\ clock' = timestamp
        /\ UNCHANGED env
        /\ IF NoPreviousContent(previousContent)
           THEN /\ latest' = currentContent
                /\ files' = writeFile(files, txt, currentContent)
                /\ metadata' = pushVersion(metadata, VersionEntry(timestamp, currentHash))
                /\ changelog' = InitialChangelog(timestamp, currentHash)
                /\ last' = answer([changed |-> FALSE, initial |-> TRUE,
                                   hash |-> currentHash])
           ELSE IF currentHash = getContentHash(previousContent)
           THEN /\ UNCHANGED <<latest, files, metadata, changelog>>
                /\ last' = answer([changed |-> FALSE, hash |-> currentHash])
           ELSE /\ latest' = currentContent
                /\ files' = writeFile(
                               writeFile(files, diffName,
                                         DiffFile(previousContent, currentContent, llm)),
                               txt, currentContent)
                /\ metadata' = pushVersion(metadata, VersionEntry(timestamp, currentHash))
                /\ changelog' = updateChangelog(changelog,
                                  ChangeEntry(timestamp, currentHash, diffSummary, llm))
                /\ last' = [op |-> "monitor", request |-> request, status |-> 200,
                            llm |-> llm,
                            result |-> [changed |-> TRUE, hash |-> currentHash,
                                        summary |-> ReturnedSummary(llm, diffSummary),
                                        diffSummary |-> diffSummary]]

\* an operation may start: the bound on the runs of a behaviour
MayRun == clock < MaxRuns

\* no HTTP request: the run was started by the command line script
NoRequest == [route |-> "none"]

\* the command line script: one run of runMonitor
MonitorRun ==
    /\ MayRun
    /\ \E currentContent \in Contents, llm \in LlmOutcomes(env) :
          runMonitor(NoRequest, currentContent, llm)
    /\ UNCHANGED <<diffVars, calls>>

\* a run that leaves an empty latest.txt behind when its fetch fails
rejectsAfterWrite(op, request) ==
    /\ last' = [op |-> op, request |-> request, status |-> 500]
    /\ latest' = ""
    /\ UNCHANGED <<metadata, files, changelog, env, clock>>

\* runMonitor when fetchConstitution throws, for a failed request or a
\* response that is not OK: the promise is rejected before anything is
\* written; op is the caller, which reports the error
runMonitorRejects(op, request) ==
    /\ last' = [op |-> op, request |-> request, status |-> 500]
    /\ UNCHANGED <<latest, metadata, files, changelog, env, clock>>

\* a run of the command line script whose fetch fails
MonitorFails ==
    /\ MayRun
    /\ runMonitorRejects("monitor", NoRequest)
    /\ UNCHANGED <<diffVars, calls>>

\* the text of the snapshot taken at time t
SnapshotContent(t) == env.archive[Len(env.archive) + 1 + t]

\* the elements of a set of times, in increasing order
RECURSIVE Ascending(_)
Ascending(S) ==
    IF S = {} THEN <<>>
    ELSE LET m == CHOOSE x \in S : \A y \in S : x <= y
         IN  <<m>> \o Ascending(S \ {m})

RECURSIVE Reverse(_)
Reverse(s) == IF s = <<>> THEN <<>> ELSE Append(Reverse(Tail(s)), Head(s))

\* versions.sort((a, b) => a.timestamp.localeCompare(b.timestamp)), a
\* stable sort: v goes after the last entry that is not later than it
RECURSIVE InsertByTimestamp(_, _)
InsertByTimestamp(sorted, v) ==
    IF sorted = <<>> THEN <<v>>
    ELSE IF sorted[Len(sorted)].timestamp <= v.timestamp THEN Append(sorted, v)
    ELSE Append(InsertByTimestamp(SubSeq(sorted, 1, Len(sorted) - 1), v),
                sorted[Len(sorted)])

RECURSIVE SortByTimestamp(_)
SortByTimestamp(versions) ==
    IF versions = <<>> THEN <<>>
    ELSE InsertByTimestamp(SortByTimestamp(SubSeq(versions, 1, Len(versions) - 1)),
                           versions[Len(versions)])

\* the versions array the loop of backfill builds from the snapshots it
\* could fetch
BackfillVersions(snapshots) ==
    [k \in 1..Len(snapshots) |->
        LET hash == getContentHash(SnapshotContent(snapshots[k]))
        IN  [timestamp |-> snapshots[k], hash |-> hash,
             file |-> FileName(snapshots[k], hash, "txt"),
             waybackTimestamp |-> snapshots[k]]]

\* the positions of the snapshots that differ from the snapshot archived
\* right before them, fetched or not
ChangedSinceArchived(snapshots) ==
    {k \in 2..Len(snapshots) :
        getContentHash(SnapshotContent(snapshots[k]))
            # getContentHash(SnapshotContent(snapshots[k] - 1))}

\* the positions of the snapshots that differ from the one fetched before
ChangedAt(snapshots) ==
    {k \in 2..Len(snapshots) :
        getContentHash(SnapshotContent(snapshots[k]))
            # getContentHash(SnapshotContent(snapshots[k - 1]))}

\* the changes array of backfill
BackfillChanges(snapshots) ==
    LET at == Ascending(ChangedAt(snapshots))
    IN  [k \in 1..Len(at) |->
            LET n == at[k]
                hash == getContentHash(SnapshotContent(snapshots[n]))
            IN  [timestamp |-> snapshots[n], hash |-> hash,
                 previousTimestamp |-> snapshots[n - 1],
                 diffSummary |-> generateDiffSummary(SnapshotContent(snapshots[n - 1]),
                                                     SnapshotContent(snapshots[n])),
                 diffFile |-> FileName(snapshots[n], hash, "diff")]]

\* the files of the versions directory after the loop of backfill
BackfillFiles(snapshots, summarized) ==
    LET versions == BackfillVersions(snapshots)
        versionFiles == {versions[k].file : k \in 1..Len(snapshots)}
        diffFiles == {FileName(snapshots[k], versions[k].hash, "diff") :
                        k \in ChangedAt(snapshots)}
    IN  [n \in DOMAIN files \cup versionFiles \cup diffFiles |->
            IF n \in versionFiles
            THEN SnapshotContent(n[1])
            ELSE IF n \in diffFiles
            THEN LET k == CHOOSE c \in ChangedAt(snapshots) :
                                n = FileName(snapshots[c], versions[c].hash, "diff")
                 IN  DiffFile(SnapshotContent(snapshots[k - 1]),
                              SnapshotContent(snapshots[k]),
                              LlmSummary(summarized, k))
            ELSE files[n]]

\* a merge that puts every version in front, listed or not
MergeAllVersions(existing, versions) == SortByTimestamp(Reverse(versions) \o existing)

\* the merge of backfill: each version whose hash metadata did not hold
\* before the merge is put in front, then the array is sorted
MergeVersions(existing, versions) ==
    LET existingHashes == {existing[k].hash : k \in 1..Len(existing)}
        news == SelectSeq(versions, LAMBDA v : v.hash \notin existingHashes)
    IN  SortByTimestamp(Reverse(news) \o existing)

ArchivedEntry(change) ==
    [kind |-> "archived change", timestamp |-> change.timestamp, hash |-> change.hash,
     linesAdded |-> change.diffSummary.linesAdded,
     linesRemoved |-> change.diffSummary.linesRemoved,
     additions |-> change.diffSummary.addedPreview,
     removals |-> change.diffSummary.removedPreview]

\* the file updateChangelogWithHistory leaves
updateChangelogWithHistory(existing, changes, initialVersion) ==
    LET historicalEntries ==
            <<HistoricalHeading,
              [kind |-> "archived initial", timestamp |-> initialVersion.timestamp,
               hash |-> initialVersion.hash]>>
            \o [k \in 1..Len(changes) |-> ArchivedEntry(changes[k])]
    IN  IF Len(existing) >= 2
        THEN IF \E k \in 1..Len(existing) : existing[k] = HistoricalHeading
             THEN existing
             ELSE <<existing[1]>> \o historicalEntries \o <<LiveHeading>> \o Tail(existing)
        ELSE <<Header>> \o historicalEntries \o <<End>>

\* the backfill script: fetched are the snapshots whose fetch succeeds,
\* summarized the changes whose summary request gets a reply; last keeps
\* the two numbers the script reports after its loop
Backfill ==
    \E fetched \in SUBSET SnapshotTimes :
      \E summarized \in Summarizable(env, ChangedAt(Ascending(fetched))) :
        LET snapshots == Ascending(fetched)
            versions == BackfillVersions(snapshots)
            changes == BackfillChanges(snapshots)
        IN  /\ files' = BackfillFiles(snapshots, summarized)
            /\ metadata' = MergeVersions(metadata, versions)
            /\ changelog' = IF changes # <<>>
                            THEN updateChangelogWithHistory(changelog, changes, versions[1])
                            ELSE changelog
            /\ last' = [op |-> "backfill", fetched |-> fetched,
                        processed |-> Len(versions), found |-> Len(changes)]
            /\ UNCHANGED <<latest, env, clock>>
            /\ UNCHANGED <<diffVars, calls>>

\* the keys a request may carry in its x-api-key header or its key parameter
PresentedKeys == {Absent, "k", "x"}

\* req.headers['x-api-key'] || req.query.key
ApiKey(request) == IF request.header # Absent THEN request.header ELSE request.query

\* a check that lets a request without a key pass
AuthorizedIfKeyless(expectedKey, apiKey) ==
    expectedKey = Absent \/ apiKey = Absent \/ apiKey = expectedKey

\* the negation of expectedKey && apiKey !== expectedKey
Authorized(expectedKey, apiKey) == expectedKey = Absent \/ apiKey = expectedKey

\* the requests to a route: a key in the header or in the query string or
\* in neither, or a wrong key in the header with the right one in the query
Requests(route) ==
    {r \in [route : {route}, header : PresentedKeys, query : PresentedKeys] :
        r.header = Absent \/ r.query = Absent \/ (r.header = "x" /\ r.query = "k")}

\* POST /api/monitor: 401 for a request that is not authorized, else the
\* result of a run, or 500 when the fetch of the run fails
PostMonitor ==
    /\ MayRun
    /\ \E request \in Requests("/api/monitor") :
          IF ~Authorized(env.monitorKey, ApiKey(request))
          THEN /\ last' = [op |-> "post", request |-> request, status |-> 401]
               /\ UNCHANGED <<latest, metadata, files, changelog, env, clock>>
          ELSE \/ \E currentContent \in Contents, llm \in LlmOutcomes(env) :
                     runMonitor(request, currentContent, llm)
               \/ runMonitorRejects("post", request)
    /\ UNCHANGED <<diffVars, calls>>

\* version.file.replace('.txt', '.diff')
DiffFileOf(version) == <<version.file[1], version.file[2], "diff">>

\* the versions POST /api/regenerate-summaries requests a summary for:
\* not the first, with a diff file that has no summary
Unsummarized ==
    {k \in 2..Len(metadata) :
        /\ DiffFileOf(metadata[k]) \in DOMAIN files
        /\ files[DiffFileOf(metadata[k])].summary = Null}

\* the loop of POST /api/regenerate-summaries from the version at index k on,
\* fs being the files so far and summarized the requests that get a reply
RECURSIVE RegenerateLoop(_, _, _)
RegenerateLoop(k, fs, summarized) ==
    IF k > Len(metadata) THEN fs
    ELSE LET diffFile == DiffFileOf(metadata[k])
             llmSummary == LlmSummary(summarized, k)
         IN  IF k = 1 \/ diffFile \notin DOMAIN fs \/ fs[diffFile].summary # Null
                \/ llmSummary = Null
             THEN RegenerateLoop(k + 1, fs, summarized)
             ELSE RegenerateLoop(k + 1,
                      writeFile(fs, diffFile, [fs[diffFile] EXCEPT !.summary = llmSummary]),
                      summarized)

\* a server that takes ANTHROPIC_API_KEY for set
KeyAssumed(e) == TRUE

\* the negation of !process.env.ANTHROPIC_API_KEY
KeyConfigured(e) == e.anthropic

\* POST /api/regenerate-summaries
PostRegenerate ==
    /\ \E request \in Requests("/api/regenerate-summaries") :
          IF ~Authorized(env.monitorKey, ApiKey(request))
          THEN /\ last' = [op |-> "post", request |-> request, status |-> 401]
               /\ UNCHANGED files
          ELSE IF ~KeyConfigured(env)
          THEN /\ last' = [op |-> "post", request |-> request, status |-> 400]
               /\ UNCHANGED files
          ELSE \E summarized \in Summarizable(env, Unsummarized) :
                  /\ files' = RegenerateLoop(1, files, summarized)
                  /\ last' = [op |-> "post", request |-> request, status |-> 200]
    /\ UNCHANGED <<latest, metadata, changelog, env, clock>>
    /\ UNCHANGED <<diffVars, calls>>

\* metadata.versions.findIndex(v => v.hash === hash), from 1, 0 for none
FindIndex(versions, hash) ==
    IF \E k \in 1..Len(versions) : versions[k].hash = hash
    THEN CHOOSE k \in 1..Len(versions) :
            /\ versions[k].hash = hash
            /\ \A j \in 1..(k - 1) : versions[j].hash # hash
    ELSE 0

\* what getDiff(hash) resolves to, llm being what the summary request of a
\* computed diff resolves to: <<>> for null, else <<the object>>, whose diff
\* is <<>> for null, else <<the diff>>
getDiff(hash, llm) ==
    LET versionIndex == FindIndex(metadata, hash)
        version == metadata[versionIndex]
        diffFileName == DiffFileOf(version)
        prevVersion == metadata[versionIndex - 1]
    IN  IF versionIndex = 0 THEN <<>>
        ELSE IF diffFileName \in DOMAIN files
        THEN <<[version |-> version, diff |-> <<files[diffFileName]>>]>>
        ELSE IF versionIndex = 1
        THEN <<[version |-> version, diff |-> <<>>, message |-> "Initial version"]>>
        ELSE IF version.file \notin DOMAIN files \/ prevVersion.file \notin DOMAIN files
        THEN <<[version |-> version, diff |-> <<>>,
                message |-> "Could not load version files"]>>
        ELSE <<[version |-> version, computed |-> TRUE,
                diff |-> <<DiffFile(files[prevVersion.file],
                                    files[version.file], llm)>>]>>

\* GET /api/diff/:hash
GetDiff ==
    /\ \E hash \in Hashes, llm \in LlmOutcomes(env) :
          LET result == getDiff(hash, llm)
          IN  last' = [op |-> "getDiff", hash |-> hash, result |-> result,
                       status |-> IF result = <<>> THEN 404 ELSE 200]
    /\ UNCHANGED <<latest, metadata, files, changelog, env, clock>>
    /\ UNCHANGED <<diffVars, calls>>

\* the stored versions before any run, in any configuration of the keys
StoreInit ==
    /\ pc = "idle"
    /\ oldContent = <<>> /\ newContent = <<>>
    /\ oldParas = <<>> /\ newParas = <<>>
    /\ paragraphs = <<>>
    /\ usedOld = {} /\ i = 0
    /\ match = NoMatch
    /\ diffResult = NoDiff
    /\ summary = Null
    /\ origin = <<>>
    /\ pairs = <<>>
    /\ FreshStore
    /\ env \in [anthropic : BOOLEAN, monitorKey : {Absent, "k"}, archive : {Archive}]

StoreNext ==
    \/ MonitorRun
    \/ MonitorFails
    \/ Backfill
    \/ PostMonitor
    \/ PostRegenerate
    \/ GetDiff

StoreSpec == StoreInit /\ [][StoreNext]_vars

----------------------------------------------------------------------------
(* The backfill script over an archive of three snapshots, with runs of    *)
(* the command line script before and after it.                            *)

BackfillInit ==
    /\ pc = "idle"
    /\ oldContent = <<>> /\ newContent = <<>>
    /\ oldParas = <<>> /\ newParas = <<>>
    /\ paragraphs = <<>>
    /\ usedOld = {} /\ i = 0
    /\ match = NoMatch
    /\ diffResult = NoDiff
    /\ summary = Null
    /\ origin = <<>>
    /\ pairs = <<>>
    /\ FreshStore
    /\ env = [anthropic |-> FALSE, monitorKey |-> Absent, archive |-> LongArchive]

BackfillNext == Backfill \/ MonitorRun

BackfillSpec == BackfillInit /\ [][BackfillNext]_vars

----------------------------------------------------------------------------
(* Two calls of runMonitor that overlap, as two POST /api/monitor requests *)
(* or a request and the command line script make them.  A call gives way   *)
(* to the other at each of its awaits; one action is the code from the     *)
(* completion of one awaited operation to the start of the next.  The page *)
(* holds the same text for both calls.                                     *)

Calls == {1, 2}

\* the text of the page while the two calls run
Page == "B"

\* the local variables of a call before its fetch completes
NewCall ==
    [pc |-> "fetch", currentContent |-> Absent, timestamp |-> 0,
     previousContent |-> Absent, llm |-> Null, versions |-> <<>>,
     existing |-> NoChangelog, result |-> <<>>]

currentHashOf(call) == getContentHash(call.currentContent)

\* a store in which one run has saved the version A
StoreWithVersion ==
    /\ latest = "A"
    /\ metadata = <<VersionEntry(0, getContentHash("A"))>>
    /\ files = writeFile([n \in {} |-> ""], FileName(0, getContentHash("A"), "txt"), "A")
    /\ changelog = InitialChangelog(0, getContentHash("A"))

\* a store in which nothing was saved
EmptyStore ==
    /\ latest = Absent
    /\ metadata = <<>>
    /\ files = [n \in {} |-> ""]
    /\ changelog = NoChangelog

\* last keeps the store the two calls started from
OverlapInit ==
    /\ pc = "idle"
    /\ oldContent = <<>> /\ newContent = <<>>
    /\ oldParas = <<>> /\ newParas = <<>>
    /\ paragraphs = <<>>
    /\ usedOld = {} /\ i = 0
    /\ match = NoMatch
    /\ diffResult = NoDiff
    /\ summary = Null
    /\ origin = <<>>
    /\ pairs = <<>>
    /\ StoreWithVersion \/ EmptyStore
    /\ env = [anthropic |-> FALSE, monitorKey |-> Absent, archive |-> Archive]
    /\ clock = 1
    /\ last = [op |-> "overlap", latest |-> latest, metadata |-> metadata,
               changelog |-> changelog]
    /\ calls = [p \in Calls |-> NewCall]

\* lines 928-936: the fetch completes; the hash and the timestamp, which
\* has a resolution of one second, are taken and latest.txt is asked for
FetchCompletes(p) ==
    /\ calls[p].pc = "fetch"
    /\ \E now \in {clock, clock + 1} :
          /\ now <= MaxRuns
          /\ clock' = now
          /\ calls' = [calls EXCEPT ![p].currentContent = Page,
                                    ![p].timestamp = now,
                                    ![p].pc = "getLatestVersion"]
    /\ UNCHANGED <<latest, metadata, files, changelog, env, last>>
    /\ UNCHANGED diffVars

\* lines 936-980: latest.txt was read; the call returns when the hashes are
\* the same, starts saveVersion when there is no previous content, and
\* starts generateDiff otherwise
LatestRead(p) ==
    /\ calls[p].pc = "getLatestVersion"
    /\ LET call == [calls[p] EXCEPT !.previousContent = latest]
       IN  calls' =
             [calls EXCEPT ![p] =
                IF NoPreviousContent(latest)
                THEN [call EXCEPT !.pc = "writeLatest"]
                ELSE IF currentHashOf(call) = getContentHash(latest)
                THEN [call EXCEPT !.pc = "returned",
                                  !.result = <<[changed |-> FALSE,
                                                hash |-> currentHashOf(call)]>>]
                ELSE [call EXCEPT !.pc = "generateDiff"]]
    /\ UNCHANGED <<latest, metadata, files, changelog, env, clock, last>>
    /\ UNCHANGED diffVars

\* lines 980-988: generateDiff resolves and the write of the diff file
\* starts
DiffGenerated(p) ==
    /\ calls[p].pc = "generateDiff"
    /\ \E llm \in LlmOutcomes(env) :
          calls' = [calls EXCEPT ![p].llm = llm, ![p].pc = "writeDiff"]
    /\ UNCHANGED <<latest, metadata, files, changelog, env, clock, last>>
    /\ UNCHANGED diffVars

\* lines 987-1005 and 895-898: the diff file is written; saveVersion starts
\* and asks for the write of latest.txt
DiffWritten(p) ==
    /\ calls[p].pc = "writeDiff"
    /\ files' = writeFile(files,
                          FileName(calls[p].timestamp, currentHashOf(calls[p]), "diff"),
                          DiffFile(calls[p].previousContent, calls[p].currentContent,
                                   calls[p].llm))
    /\ calls' = [calls EXCEPT ![p].pc = "writeLatest"]
    /\ UNCHANGED <<latest, metadata, changelog, env, clock, last>>
    /\ UNCHANGED diffVars

\* line 898: latest.txt is written
LatestWritten(p) ==
    /\ calls[p].pc = "writeLatest"
    /\ latest' = calls[p].currentContent
    /\ calls' = [calls EXCEPT ![p].pc = "writeVersion"]
    /\ UNCHANGED <<metadata, files, changelog, env, clock, last>>
    /\ UNCHANGED diffVars

\* lines 901-903: the version file is written
VersionWritten(p) ==
    /\ calls[p].pc = "writeVersion"
    /\ files' = writeFile(files,
                          FileName(calls[p].timestamp, currentHashOf(calls[p]), "txt"),
                          calls[p].currentContent)
    /\ calls' = [calls EXCEPT ![p].pc = "loadMetadata"]
    /\ UNCHANGED <<latest, metadata, changelog, env, clock, last>>
    /\ UNCHANGED diffVars

\* lines 906-912: metadata.json was read; the entry is pushed to the array
\* that was read and the write of the file starts
MetadataLoaded(p) ==
    /\ calls[p].pc = "loadMetadata"
    /\ calls' = [calls EXCEPT
                   ![p].versions = pushVersion(metadata,
                                               VersionEntry(calls[p].timestamp,
                                                            currentHashOf(calls[p]))),
                   ![p].pc = "saveMetadata"]
    /\ UNCHANGED <<latest, metadata, files, changelog, env, clock, last>>
    /\ UNCHANGED diffVars

\* line 912 and lines 943-962 or 858-864: metadata.json is written; the
\* first run asks for the write of its changelog, another run for
\* CHANGELOG.md
MetadataSaved(p) ==
    /\ calls[p].pc = "saveMetadata"
    /\ metadata' = calls[p].versions
    /\ calls' = [calls EXCEPT ![p].pc = IF NoPreviousContent(calls[p].previousContent)
                                        THEN "writeChangelog"
                                        ELSE "readChangelog"]
    /\ UNCHANGED <<latest, files, changelog, env, clock, last>>
    /\ UNCHANGED diffVars

\* lines 858-886: CHANGELOG.md was read by updateChangelog; the new text
\* is built and its write starts
ChangelogRead(p) ==
    /\ calls[p].pc = "readChangelog"
    /\ calls' = [calls EXCEPT ![p].existing = changelog, ![p].pc = "writeChangelog"]
    /\ UNCHANGED <<latest, metadata, files, changelog, env, clock, last>>
    /\ UNCHANGED diffVars

\* lines 962-964 or 887 and 1012-1017: CHANGELOG.md is written and the call
\* returns
ChangelogWritten(p) ==
    /\ calls[p].pc = "writeChangelog"
    /\ LET call == calls[p]
           diffSummary == generateDiffSummary(call.previousContent, call.currentContent)
       IN  IF NoPreviousContent(call.previousContent)
           THEN /\ changelog' = InitialChangelog(call.timestamp, currentHashOf(call))
                /\ calls' = [calls EXCEPT
                               ![p].pc = "returned",
                               ![p].result = <<[changed |-> FALSE, initial |-> TRUE,
                                                hash |-> currentHashOf(call)]>>]
           ELSE /\ changelog' = updateChangelog(call.existing,
                                    ChangeEntry(call.timestamp, currentHashOf(call),
                                                diffSummary, call.llm))
                /\ calls' = [calls EXCEPT
                               ![p].pc = "returned",
                               ![p].result =
                                   <<[changed |-> TRUE, hash |-> currentHashOf(call),
                                      summary |-> ReturnedSummary(call.llm, diffSummary),
                                      diffSummary |-> diffSummary]>>]
    /\ UNCHANGED <<latest, metadata, files, env, clock, last>>
    /\ UNCHANGED diffVars

OverlapNext ==
    \E p \in Calls :
        \/ FetchCompletes(p)
        \/ LatestRead(p)
        \/ DiffGenerated(p)
        \/ DiffWritten(p)
        \/ LatestWritten(p)
        \/ VersionWritten(p)
        \/ MetadataLoaded(p)
        \/ MetadataSaved(p)
        \/ ChangelogRead(p)
        \/ ChangelogWritten(p)

OverlapSpec == OverlapInit /\ [][OverlapNext]_vars

----------------------------------------------------------------------------
(* Properties.                                                             *)

\* the word set findBestMatch compares a paragraph by
ParaWords(para) == WordSet(normalizeForMatching(para))

AboveThreshold(score) == FracGt(score, <<ThresholdNum, ThresholdDen>>)

\* the state right after Split
Segmented == pc = "match" /\ i = 0 /\ pairs = <<>> /\ paragraphs = <<>>

\* C1: the diff of a non-empty text against itself has no entry, however
\* many paragraphs the text has and whatever their word sets are.
IdentityDiffIsEmpty ==
    (pc = "done" /\ oldContent = newContent /\ oldContent # <<>>)
        => paragraphs = <<>>

\* an identical pair of texts of several paragraphs that share a word set
IdentityDiffWitness ==
    /\ pc = "done"
    /\ oldContent = newContent
    /\ Len(newParas) >= 2
    /\ ParaWords(newParas[1]) = ParaWords(newParas[2])
    /\ paragraphs = <<>>

\* the sentences of the paragraphs, in paragraph order
ResplitParagraphs(paras) == Concat([k \in 1..Len(paras) |-> Sentences(paras[k])])

Lossless(text, paras) == ResplitParagraphs(paras) = Sentences(text)

\* neither leading nor trailing white space, or nothing but white space
Trimmed(text) == trim(text) = text \/ trim(text) = <<>>

\* C2 as stated: for every input text, the sentences of the paragraphs are
\* the sentences of the text.
SegmentationLossless ==
    Segmented => Lossless(oldContent, oldParas) /\ Lossless(newContent, newParas)

\* C2 as amended: for every input text that does not begin or end with
\* white space (or is nothing but white space), the sentences of the
\* paragraphs are the sentences of the text.
SegmentationLosslessTrimmed ==
    Segmented =>
        /\ Trimmed(oldContent) => Lossless(oldContent, oldParas)
        /\ Trimmed(newContent) => Lossless(newContent, newParas)

\* a text without outer white space that is cut into several paragraphs
SegmentationWitness ==
    /\ Segmented
    /\ newContent # <<>> /\ trim(newContent) = newContent
    /\ Len(newParas) >= 2
    /\ Lossless(newContent, newParas)

\* C3: at every step of generateDiff no old paragraph is consumed by two
\* new paragraphs and no new paragraph is paired twice.
MatchingIsOneToOne ==
    /\ \A k, l \in 1..Len(pairs) :
          k # l => pairs[k][1] # pairs[l][1] /\ pairs[k][2] # pairs[l][2]
    /\ usedOld = {pairs[k][2] : k \in 1..Len(pairs)}

\* a new paragraph that stays unmatched although a consumed old paragraph
\* scores above the threshold against it
OneToOneWitness ==
    /\ pc = "done"
    /\ \E n \in 0..(Len(newParas) - 1) :
          /\ \A k \in 1..Len(pairs) : pairs[k][1] # n
          /\ \E j \in usedOld :
                AboveThreshold(Score(ParaWords(newParas[n + 1]),
                                     ParaWords(oldParas[j + 1])))

\* the state right after an iteration of the matching loop
JustMatched == (pc = "match" /\ i > 0) \/ (pc = "removed" /\ i = 0)

\* the index of the new paragraph the last iteration processed
LastNew == IF pc = "match" THEN i - 1 ELSE Len(newParas) - 1

\* the old indices that were consumed before the last iteration
UsedBefore == IF match.index >= 0 THEN usedOld \ {match.index} ELSE usedOld

\* the Jaccard score of the last new paragraph against old paragraph j
CandidateScore(j) ==
    Score(ParaWords(newParas[LastNew + 1]), ParaWords(oldParas[j + 1]))

\* the unconsumed old paragraphs that score above 0.3 against the last new
\* paragraph
CandidatesAbove ==
    LET words == ParaWords(newParas[LastNew + 1])
    IN  {j \in (0..(Len(oldParas) - 1)) \ UsedBefore :
            AboveThreshold(Score(words, ParaWords(oldParas[j + 1])))}

\* C4: a new paragraph is paired only with an unconsumed old paragraph
\* whose score is strictly greater than 0.3, so it stays unmatched when
\* every candidate scores 0.3 or less, and it is paired whenever some
\* unconsumed candidate (a sole one in particular) scores above 0.3.
ThresholdIsStrict ==
    JustMatched =>
        LET above == CandidatesAbove
        IN  /\ match.index >= 0 => match.index \in above
            /\ match.index >= 0 => 10 * match.score[1] > 3 * match.score[2]
            /\ above = {} => match.index = -1
            /\ above # {} => match.index >= 0
            /\ Cardinality(above) = 1 => {match.index} = above

\* a candidate that shares 3 words of a union of 10 and is left unmatched
ThresholdWitness ==
    /\ JustMatched
    /\ match.index = -1
    /\ \E j \in (0..(Len(oldParas) - 1)) \ UsedBefore : CandidateScore(j) = <<3, 10>>

\* the old and the new paragraph of the pair the last iteration made
LastOldPara == oldParas[match.index + 1]
LastNewPara == newParas[LastNew + 1]

\* the last iteration pushed an entry
Emitted ==
    /\ origin # <<>>
    /\ origin[Len(origin)] = [side |-> "new", index |-> LastNew]

LastEntry == paragraphs[Len(paragraphs)]

\* the rendering holds an insertion or a deletion marker
HasMarker(html) == \E k \in 1..Len(html) : html[k] = "<"

\* C5: a matched pair yields no entry iff its rendering marks no insertion
\* and no deletion; otherwise the entry is replaced, carrying the two
\* escaped paragraphs, exactly when unchangedChars / totalChars < 0.5, and
\* changed, carrying the rendering, otherwise, in particular at exactly one
\* half; with totalChars = 0 there is no entry.
PairClassification ==
    (JustMatched /\ match.index >= 0) =>
        LET t == DiffTotals(LastOldPara, LastNewPara)
        IN  /\ Emitted <=> HasMarker(t.html)
            /\ t.totalChars = 0 => ~Emitted
            /\ Emitted =>
                 IF 2 * t.unchangedChars < t.totalChars
                 THEN LastEntry = [type |-> "replaced",
                                   oldContent |-> escapeHtml(LastOldPara),
                                   newContent |-> escapeHtml(LastNewPara)]
                 ELSE LastEntry = [type |-> "changed", content |-> t.html]

\* a pair with exactly half of its characters unchanged, emitted as changed
PairClassificationWitness ==
    /\ JustMatched /\ match.index >= 0
    /\ Emitted
    /\ LastEntry.type = "changed"
    /\ LET t == DiffTotals(LastOldPara, LastNewPara)
       IN  t.totalChars > 0 /\ 2 * t.unchangedChars = t.totalChars

\* the tokens of a paragraph that are not white space, in order
NonSpaceTokens(para) ==
    SelectSeq(SplitKeep(para), LAMBDA tok : tok # <<>> /\ ~IsSpace(tok[1]))

\* C6: a matched pair of paragraphs with the same sequence of non-white-space
\* tokens, differing at most in the white space between them, has
\* hasChanges false, no marker in its rendering, and pushes no entry.
WhitespaceEditsInvisible ==
    (/\ JustMatched /\ match.index >= 0
     /\ NonSpaceTokens(LastOldPara) = NonSpaceTokens(LastNewPara))
        => /\ ~diffResult.hasChanges
           /\ ~HasMarker(diffResult.html)
           /\ ~Emitted

\* two different paragraphs of several tokens that differ in white space
\* only, paired without an entry
WhitespaceEditsWitness ==
    /\ JustMatched /\ match.index >= 0
    /\ LastOldPara # LastNewPara
    /\ Len(NonSpaceTokens(LastNewPara)) >= 2
    /\ NonSpaceTokens(LastOldPara) = NonSpaceTokens(LastNewPara)
    /\ ~diffResult.hasChanges
    /\ paragraphs = <<>>

\* the indices, in order of emission, of the entries of one side
SideIndices(side) ==
    LET kept == SelectSeq(origin, LAMBDA o : o.side = side)
    IN  [k \in 1..Len(kept) |-> kept[k].index]

Increasing(sq) == \A k \in 1..(Len(sq) - 1) : sq[k] < sq[k + 1]

\* C7: in the output every removed entry comes after every added, changed
\* and replaced entry; the added, changed and replaced entries are in
\* increasing order of the new paragraph that produced them, the removed
\* entries in increasing order of their old paragraph.
OutputOrdering ==
    /\ Len(origin) = Len(paragraphs)
    /\ \A k \in 1..Len(paragraphs) :
          /\ paragraphs[k].type = "removed" <=> origin[k].side = "old"
          /\ paragraphs[k].type = "removed" =>
                paragraphs[k].content = escapeHtml(oldParas[origin[k].index + 1])
          /\ paragraphs[k].type = "added" =>
                paragraphs[k].content = escapeHtml(newParas[origin[k].index + 1])
          /\ paragraphs[k].type = "replaced" =>
                paragraphs[k].newContent = escapeHtml(newParas[origin[k].index + 1])
    /\ \A k, l \in 1..Len(paragraphs) :
          (paragraphs[k].type = "removed" /\ paragraphs[l].type # "removed") => l < k
    /\ Increasing(SideIndices("new"))
    /\ Increasing(SideIndices("old"))

\* an output of several entries of new paragraphs followed by several
\* removed entries
OutputOrderingWitness ==
    /\ pc = "done"
    /\ Len(SideIndices("new")) >= 2
    /\ Len(SideIndices("old")) >= 2
    /\ paragraphs[1].type # "removed"
    /\ paragraphs[Len(paragraphs)].type = "removed"

\* the words of a text, the empty piece of a text without words included
TextWords(text) == ParaWords(text)

\* entry k is the given entry and was produced by paragraph index of side
EmittedAs(side, index, entry) ==
    \E k \in 1..Len(paragraphs) :
        paragraphs[k] = entry /\ origin[k] = [side |-> side, index |-> index]

\* C8 as stated: when no normalized word of the old text occurs in the new
\* text, every new paragraph is emitted as added, every old paragraph as
\* removed, and no entry is changed or replaced.
DisjointTextsAddedRemoved ==
    (pc = "done" /\ TextWords(oldContent) \cap TextWords(newContent) = {})
        => /\ \A n \in 0..(Len(newParas) - 1) :
                EmittedAs("new", n, [type |-> "added",
                                     content |-> escapeHtml(newParas[n + 1])])
           /\ \A j \in 0..(Len(oldParas) - 1) :
                EmittedAs("old", j, [type |-> "removed",
                                     content |-> escapeHtml(oldParas[j + 1])])
           /\ \A k \in 1..Len(paragraphs) :
                paragraphs[k].type \in {"added", "removed"}

\* the entity of one character
CharEscape(c) ==
    CASE c = "&" -> AmpEntity
      [] c = "<" -> LtEntity
      [] c = ">" -> GtEntity
      [] OTHER -> <<c>>

\* a text with each of its characters escaped on its own
EscapedText(text) ==
    IF \A k \in 1..Len(text) : text[k] \notin {"&", "<", ">"} THEN text
    ELSE Concat([k \in 1..Len(text) |-> CharEscape(text[k])])

Markers == {AddOpen, AddClose, DelOpen, DelClose}
Entities == {AmpEntity, LtEntity, GtEntity}

StartsAt(html, k, m) ==
    k + Len(m) - 1 <= Len(html) /\ SubSeq(html, k, k + Len(m) - 1) = m

EndsAt(html, k, m) == k >= Len(m) /\ SubSeq(html, k - Len(m) + 1, k) = m

\* every raw < opens and every raw > closes one of the four markers
RawOnlyInMarkers(html) ==
    \A k \in 1..Len(html) :
        /\ html[k] = "<" => \E m \in Markers : StartsAt(html, k, m)
        /\ html[k] = ">" => \E m \in Markers : EndsAt(html, k, m)

\* every & opens an entity
AmpersandsAreEntities(html) ==
    \A k \in 1..Len(html) :
        html[k] = "&" => \E e \in Entities : StartsAt(html, k, e)

\* the positions at which the marker m begins
MarkerStarts(html, m) ==
    {p \in 1..Len(html) : html[p] = m[1] /\ StartsAt(html, p, m)}

\* the rendering without its deletions, their markers included, and without
\* the insertion markers
NewView(html) ==
    LET opens  == MarkerStarts(html, DelOpen)
        closes == MarkerStarts(html, DelClose)
        inAdd  == UNION ({p..(p + Len(AddOpen) - 1) : p \in MarkerStarts(html, AddOpen)}
                           \cup {p..(p + Len(AddClose) - 1) :
                                    p \in MarkerStarts(html, AddClose)})
        inDel(k) == \E p \in opens :
                        /\ p <= k
                        /\ ~\E q \in closes : p <= q /\ q <= k - Len(DelClose)
        kept == [k \in 1..Len(html) |->
                   IF k \in inAdd \/ inDel(k) THEN "" ELSE html[k]]
    IN  SelectSeq(kept, LAMBDA c : c # "")

\* the old index the new paragraph n was paired with
PairedOld(n) ==
    LET k == CHOOSE k \in 1..Len(pairs) : pairs[k][1] = n
    IN  pairs[k][2]

\* C9: every content string of every entry is escaped: an added, removed or
\* replaced entry carries its source paragraph with each &, < and > as
\* &amp;, &lt; and &gt;; in a changed entry every raw < and > belongs to an
\* <add>, </add>, <del> or </del> marker, every & opens an entity, and the
\* rendering without deletions and markers is the escaped new paragraph.
EntriesEscaped ==
    pc = "done" =>
        \A k \in 1..Len(paragraphs) :
            LET e == paragraphs[k]
                o == origin[k]
            IN  CASE e.type = "added" ->
                       e.content = EscapedText(newParas[o.index + 1])
                  [] e.type = "removed" ->
                       e.content = EscapedText(oldParas[o.index + 1])
                  [] e.type = "replaced" ->
                       /\ e.newContent = EscapedText(newParas[o.index + 1])
                       /\ e.oldContent = EscapedText(oldParas[PairedOld(o.index) + 1])
                  [] OTHER ->
                       /\ RawOnlyInMarkers(e.content)
                       /\ AmpersandsAreEntities(e.content)
                       /\ NewView(e.content) = EscapedText(newParas[o.index + 1])

\* a changed entry that holds a marker and the entity of a character of its
\* source
EntriesEscapedWitness ==
    /\ pc = "done"
    /\ \E k \in 1..Len(paragraphs) :
          /\ paragraphs[k].type = "changed"
          /\ \E p \in 1..Len(paragraphs[k].content) :
                \/ StartsAt(paragraphs[k].content, p, LtEntity)
                \/ StartsAt(paragraphs[k].content, p, AmpEntity)
          /\ \E p \in 1..Len(paragraphs[k].content) :
                StartsAt(paragraphs[k].content, p, DelOpen)

\* the two texts have the same words up to letter case and the punctuation
\* attached to them, separated by white space at the same places
FormatEquivalent(a, b) ==
    LET ta == NonSpaceTokens(a)
        tb == NonSpaceTokens(b)
    IN  /\ Len(ta) = Len(tb)
        /\ Len(ta) > 0
        /\ \A k \in 1..Len(ta) :
              /\ normalizeWord(ta[k]) = normalizeWord(tb[k])
              /\ normalizeWord(ta[k]) # <<>>
        /\ IsSpace(a[1]) <=> IsSpace(b[1])
        /\ IsSpace(a[Len(a)]) <=> IsSpace(b[Len(b)])

\* C10 as stated: two texts that differ only in the length of white space
\* runs, in letter case or in the punctuation attached to words have an
\* empty diff, texts of several paragraphs included.
FormatChangesIgnored ==
    (pc = "done" /\ FormatEquivalent(oldContent, newContent))
        => paragraphs = <<>>

\* the score x is at most the score y, both being fractions
AtMost(x, y) == x[1] * y[2] <= y[1] * x[2]

\* C18: findBestMatch returns, among the unconsumed old paragraphs that
\* score above 0.3 against the new paragraph, one of maximal score, the one
\* of lowest index among those of maximal score, with that score; it
\* returns index -1 and score 0 when there is none
BestMatchIsFirstMaximum ==
    JustMatched =>
        LET above == CandidatesAbove
        IN  /\ above = {} => (match.index = -1 /\ match.score[1] = 0)
            /\ above # {} =>
                  /\ match.index \in above
                  /\ match.score = CandidateScore(match.index)
                  /\ \A j \in above :
                        /\ AtMost(CandidateScore(j), match.score)
                        /\ AtMost(match.score, CandidateScore(j)) => j >= match.index

\* two unconsumed old paragraphs share the maximal score and the one of
\* lower index was returned
BestMatchWitness ==
    /\ JustMatched
    /\ match.index >= 0
    /\ \E j \in CandidatesAbove :
          /\ j > match.index
          /\ CandidateScore(j) = match.score

\* the number of pairs that hold index n at position side (1 the new
\* paragraph, 2 the old one)
TimesMatched(side, n) == Cardinality({k \in 1..Len(pairs) : pairs[k][side] = n})

\* the number of entries of a type that paragraph n of a side produced
TimesEmitted(type, side, n) ==
    Cardinality({k \in 1..Len(paragraphs) :
                    /\ paragraphs[k].type = type
                    /\ origin[k].side = side
                    /\ origin[k].index = n})

\* the number of entries of a type
EntriesOfType(type) ==
    Cardinality({k \in 1..Len(paragraphs) : paragraphs[k].type = type})

\* C19: every old paragraph is in exactly one matched pair or is emitted
\* exactly once as removed, never both, and a removed entry exists only
\* once the loop over the new paragraphs is over; every new paragraph is
\* in exactly one matched pair or is emitted exactly once as added; so the
\* added entries and the pairs count the new paragraphs, the removed
\* entries and the pairs the old ones
EveryParagraphOnce ==
    /\ EntriesOfType("removed") > 0 => pc \in {"removed", "summary", "done"}
    /\ pc = "done" =>
          /\ \A n \in 0..(Len(oldParas) - 1) :
                TimesMatched(2, n) + TimesEmitted("removed", "old", n) = 1
          /\ \A n \in 0..(Len(newParas) - 1) :
                TimesMatched(1, n) + TimesEmitted("added", "new", n) = 1
          /\ EntriesOfType("added") + Len(pairs) = Len(newParas)
          /\ EntriesOfType("removed") + Len(pairs) = Len(oldParas)

\* a diff that is done with a matched pair, an added and a removed entry
EveryParagraphOnceWitness ==
    /\ pc = "done"
    /\ pairs # <<>>
    /\ EntriesOfType("added") > 0
    /\ EntriesOfType("removed") > 0

\* the paragraphs of both texts
AllParas == {oldParas[k] : k \in 1..Len(oldParas)} \cup {newParas[k] : k \in 1..Len(newParas)}

\* C20 as stated: a paragraph of two or more sentences is at most 500
\* characters long; only a paragraph of one sentence can be longer
SeveralSentencesWithinCap ==
    Segmented =>
        \A para \in AllParas : Len(Sentences(para)) >= 2 => Len(para) <= ParagraphCap

\* C20: the paragraph is closed when the lengths of the buffer and of the
\* next sentence exceed 500 together, the space that joins them not
\* counted; so a paragraph of two or more sentences is at most 501
\* characters long, and only a paragraph of one sentence can be longer
SeveralSentencesWithinCapAndSpace ==
    Segmented =>
        \A para \in AllParas : Len(Sentences(para)) >= 2 => Len(para) <= ParagraphCap + 1

\* a paragraph of two sentences that is 501 characters long, followed by a
\* paragraph the cap has closed it for
CapWitness ==
    /\ Segmented
    /\ Len(newParas) = 2
    /\ Len(Sentences(newParas[1])) = 2
    /\ Len(newParas[1]) = ParagraphCap + 1

\* what C21 says of a text and the paragraphs it is split into
TotalSplit(text, paras) ==
    /\ Len(paras) >= 1
    /\ Boundaries(text) = {} => Len(paras) = 1
    /\ text = <<>> => paras = << <<>> >>
    /\ trim(text) # <<>> => \A k \in 1..Len(paras) : trim(paras[k]) # <<>>

\* C21: splitIntoParagraphs returns at least one paragraph for every text;
\* a text without a sentence boundary comes back as one paragraph, the empty
\* text as one empty paragraph, and no paragraph is empty after trimming
\* unless the text is empty or white space only
SplitIsTotal ==
    Segmented => TotalSplit(oldContent, oldParas) /\ TotalSplit(newContent, newParas)

\* an empty old text and a new text of white space only, each split into
\* the one paragraph that is the text itself
SplitIsTotalWitness ==
    /\ Segmented
    /\ oldContent = <<>>
    /\ oldParas = << <<>> >>
    /\ newContent # <<>>
    /\ trim(newContent) = <<>>
    /\ newParas = <<newContent>>

\* the sum of two fractions
FracAdd(x, y) == <<x[1] * y[2] + y[1] * x[2], x[2] * y[2]>>

\* the scores of the new paragraphs (from 0) against the old ones (from 0)
ScoreTable ==
    LET newWords == [n \in 1..Len(newParas) |-> ParaWords(newParas[n])]
        oldWords == [j \in 1..Len(oldParas) |-> ParaWords(oldParas[j])]
    IN  [n \in 0..(Len(newParas) - 1) |->
            [j \in 0..(Len(oldParas) - 1) |-> Score(newWords[n + 1], oldWords[j + 1])]]

\* the greater of two fractions
FracMax(x, y) == IF FracGt(y, x) THEN y ELSE x

RECURSIVE MaxOver(_, _)
\* the greatest of a function of fractions over a set of arguments, 0 for none
MaxOver(f, S) ==
    IF S = {} THEN <<0, 1>>
    ELSE LET j == CHOOSE x \in S : TRUE
         IN  FracMax(f[j], MaxOver(f, S \ {j}))

RECURSIVE BestTotal(_, _, _)
\* the greatest total score of a one-to-one assignment of the new
\* paragraphs from n on to the old paragraphs that are not in used
BestTotal(table, n, used) ==
    IF n >= Len(newParas) THEN <<0, 1>>
    ELSE LET free == (0..(Len(oldParas) - 1)) \ used
             with == [j \in free |-> FracAdd(table[n][j], BestTotal(table, n + 1, used \cup {j}))]
         IN  FracMax(BestTotal(table, n + 1, used), MaxOver(with, free))

RECURSIVE PairsTotal(_, _)
\* the total score of the first k pairs generateDiff made
PairsTotal(table, k) ==
    IF k = 0 THEN <<0, 1>>
    ELSE FracAdd(table[pairs[k][1]][pairs[k][2]], PairsTotal(table, k - 1))

\* C22: the pairing generateDiff makes is a one-to-one assignment found in
\* the order of the new paragraphs, so its total similarity is at most that
\* of the best one-to-one assignment; it is not always equal to it
GreedyAtMostOptimal ==
    pc = "done" =>
        LET table == ScoreTable
        IN  /\ \A k, l \in 1..Len(pairs) : k < l =>
                  (pairs[k][1] < pairs[l][1] /\ pairs[k][2] # pairs[l][2])
            /\ ~FracGt(PairsTotal(table, Len(pairs)), BestTotal(table, 0, {}))

\* the first new paragraph has consumed the old paragraph that the second
\* one scores strictly higher against, and the total of the pairing is
\* lower than that of the best assignment
GreedyNotOptimalWitness ==
    /\ pc = "done"
    /\ Len(pairs) = 2
    /\ pairs[1] = <<0, 0>>
    /\ LET table == ScoreTable
       IN  /\ FracGt(table[1][0], table[0][0])
           /\ FracGt(table[1][0], table[pairs[2][1]][pairs[2][2]])
           /\ FracGt(BestTotal(table, 0, {}), PairsTotal(table, 2))

\* the tokens of a are those of b: the white space runs are the same and
\* the tokens between them are equal for the comparator of diffParagraphs
SameUpToComparator(a, b) ==
    LET ta == SplitKeep(a)
        tb == SplitKeep(b)
    IN  /\ Len(ta) = Len(tb)
        /\ \A k \in 1..Len(ta) :
              IF k % 2 = 0 THEN ta[k] = tb[k] ELSE comparator(ta[k], tb[k])

\* C23: for every pair given to diffParagraphs, the html without its
\* <del>...</del> spans and without the <add> and </add> markers is the
\* escaped new paragraph with its own white space, up to the differences
\* of case and of non-word characters the comparator ignores
InlineKeepsNewParagraph ==
    (JustMatched /\ match.index >= 0) =>
        SameUpToComparator(NewView(diffResult.html), EscapedText(LastNewPara))

\* a pair rendered with a deletion and an insertion, whose new paragraph
\* has a character to escape
InlineKeepsNewParagraphWitness ==
    /\ JustMatched
    /\ match.index >= 0
    /\ MarkerStarts(diffResult.html, DelOpen) # {}
    /\ MarkerStarts(diffResult.html, AddOpen) # {}
    /\ NewView(diffResult.html) = EscapedText(LastNewPara)
    /\ NewView(diffResult.html) # diffResult.html
    /\ EscapedText(LastNewPara) # LastNewPara

\* C24: the two copies of the diff engine are equivalent: for every pair
\* of texts generateDiff of backfill.js produces the paragraphs sequence
\* that generateDiff of monitor.js produces
CopiesAgree == pc = "done" => backfill_generateDiff(oldContent, newContent) = paragraphs

\* both copies produce a changed entry followed by another entry
CopiesAgreeWitness ==
    /\ pc = "done"
    /\ Len(paragraphs) >= 2
    /\ paragraphs[1].type = "changed"
    /\ backfill_generateDiff(oldContent, newContent) = paragraphs

----------------------------------------------------------------------------
(* The stored versions *)

\* this step is a run of runMonitor that returned
RunReturned == clock' = clock + 1

\* the run of this step returned initial: true
TookInitialBranch == RunReturned /\ "initial" \in DOMAIN last'.result

\* C11: a run takes the initial branch only when no version was stored
\* before it; after a run has stored a version no run returns initial: true
InitialOnlyOnce == [][TookInitialBranch => metadata = <<>>]_vars

\* the sections of the changelog that are entries: not the header, a heading
\* or the end of the file
IsEntry(section) ==
    section.kind \in {"initial", "change", "archived initial", "archived change"}

\* C12: every entry of CHANGELOG.md is still in it after any run of the
\* monitor or of the backfill
ChangelogKeepsEntries ==
    [][\A k \in 1..Len(changelog) :
          IsEntry(changelog[k]) =>
              \E j \in 1..Len(changelog') : changelog'[j] = changelog[k]]_vars

\* C13: a run that fetches a content with the hash of latest.txt returns
\* changed: false and writes no file
SameHashWritesNothing ==
    [][(RunReturned /\ latest # Absent /\ last'.result.hash = getContentHash(latest))
          => /\ last'.result.changed = FALSE
             /\ UNCHANGED <<latest, files, metadata, changelog>>]_vars

\* the run of this step detected a change
ChangeDetected == RunReturned /\ last'.result.changed

\* the fallback text of a run, from the line counts it returns
FallbackText(result) ==
    <<"Changes detected: +", result.diffSummary.linesAdded, "/-",
      result.diffSummary.linesRemoved, " lines">>

\* C14: a run that detects a change without ANTHROPIC_API_KEY, or whose
\* summary request fails, stores the diff file with a null summary, the new
\* version and a changelog entry without a Summary section, and returns the
\* fallback text made of the line counts
ChangeStoredWithoutSummary ==
    [][ChangeDetected =>
          /\ ~env.anthropic => last'.llm = Null
          /\ last'.llm = Null =>
                LET hash == last'.result.hash
                    txt == FileName(clock', hash, "txt")
                    diffName == FileName(clock', hash, "diff")
                IN  /\ diffName \notin DOMAIN files
                    /\ diffName \in DOMAIN files'
                    /\ files'[diffName].summary = Null
                    /\ files'[diffName].paragraphs = <<latest, latest'>>
                    /\ txt \in DOMAIN files'
                    /\ files'[txt] = latest'
                    /\ getContentHash(latest') = hash
                    /\ metadata' = Append(metadata,
                                     [timestamp |-> clock', hash |-> hash, file |-> txt])
                    /\ Len(changelog') = Len(changelog) + 1
                    /\ changelog'[2].kind = "change"
                    /\ changelog'[2].timestamp = clock'
                    /\ changelog'[2].hash = hash
                    /\ changelog'[2].summarySection = <<>>
                    /\ last'.result.summary = FallbackText(last'.result)
                    /\ last'.result.diffSummary = generateDiffSummary(latest, latest')]_vars

\* a run has just stored a change although its summary request failed with
\* the key set
ChangeStoredWithoutSummaryWitness ==
    /\ last.op = "monitor"
    /\ last.status = 200
    /\ last.result.changed
    /\ last.llm = Null
    /\ env.anthropic
    /\ changelog[2].kind = "change"
    /\ changelog[2].summarySection = <<>>
    /\ FileName(clock, last.result.hash, "diff") \in DOMAIN files

\* the routes protected by MONITOR_API_KEY
ProtectedRoutes == {"/api/monitor", "/api/regenerate-summaries"}

\* this step answers a request to a protected route whose key is missing or
\* is not the configured one
RefusedRequest ==
    /\ last'.op \in {"post", "monitor"}
    /\ last'.request.route \in ProtectedRoutes
    /\ env.monitorKey # Absent
    /\ ApiKey(last'.request) # env.monitorKey

\* C15: with MONITOR_API_KEY configured, a POST to /api/monitor or to
\* /api/regenerate-summaries without the key or with another key is answered
\* 401, starts no run and modifies no stored file
WrongKeyIsRefused ==
    [][RefusedRequest =>
          /\ last'.op = "post"
          /\ last'.status = 401
          /\ UNCHANGED <<latest, metadata, files, changelog, clock>>]_vars

\* a request with a wrong key in its header has just been refused, with
\* versions stored that a run would have added to
WrongKeyIsRefusedWitness ==
    /\ last.op = "post"
    /\ last.status = 401
    /\ last.request.route = "/api/monitor"
    /\ last.request.header = "x"
    /\ env.monitorKey = "k"
    /\ latest \notin {Absent, ""}
    /\ metadata # <<>>

\* the diff of the version at index k of metadata against the version
\* right before it, as generateDiff is given the two version files
DiffAgainstPrevious(k) ==
    <<files[metadata[k - 1].file], files[metadata[k].file]>>

\* C16: getDiff called with the hash of an entry of metadata returns that
\* entry, with a null diff for the first entry and the diff against the
\* entry right before it for every other; it returns null for a hash that
\* is not in metadata
GetDiffReturnsPreviousDiff ==
    last.op = "getDiff" =>
        /\ (\A k \in 1..Len(metadata) : metadata[k].hash # last.hash)
              => last.result = <<>>
        /\ \A k \in 1..Len(metadata) :
              metadata[k].hash = last.hash =>
                  /\ last.result # <<>>
                  /\ last.result[1].version = metadata[k]
                  /\ k = 1 => last.result[1].diff = <<>>
                  /\ k > 1 => /\ last.result[1].diff # <<>>
                              /\ last.result[1].diff[1].paragraphs = DiffAgainstPrevious(k)

\* this step answers a POST to /api/regenerate-summaries
RegenerateAnswered ==
    /\ last'.op = "post"
    /\ last'.request.route = "/api/regenerate-summaries"

\* the files of this step: none is created, and one that changes is a diff
\* file that had no summary and differs by its summary only
OnlyNewSummariesWritten ==
    /\ DOMAIN files' = DOMAIN files
    /\ \A n \in DOMAIN files :
          files'[n] # files[n] =>
              /\ n[3] = "diff"
              /\ files[n].summary = Null
              /\ files'[n].summary # Null
              /\ files'[n].paragraphs = files[n].paragraphs
    /\ UNCHANGED <<latest, metadata, changelog>>

\* C17 as stated: regenerate-summaries never rewrites a diff that has a
\* summary, writes a diff file only to give it its new summary, and without
\* ANTHROPIC_API_KEY answers 400 and writes nothing
RegenerateWithoutKeyIs400 ==
    [][RegenerateAnswered =>
          /\ OnlyNewSummariesWritten
          /\ ~env.anthropic => (last'.status = 400 /\ files' = files)]_vars

\* the request of this step carries the key MONITOR_API_KEY asks for, if any
PassesKeyCheck ==
    env.monitorKey = Absent \/ ApiKey(last'.request) = env.monitorKey

\* C17: regenerate-summaries never rewrites a diff that has a summary and
\* writes a diff file only to give it its new summary; without
\* ANTHROPIC_API_KEY it writes nothing, and answers 400 to a request that
\* carries the key MONITOR_API_KEY asks for
RegenerateWritesOnlyNewSummaries ==
    [][RegenerateAnswered =>
          /\ OnlyNewSummariesWritten
          /\ ~env.anthropic => files' = files
          /\ (~env.anthropic /\ PassesKeyCheck) => last'.status = 400]_vars

\* regenerate-summaries has just answered, and the diff of a change whose
\* changelog entry has no Summary section has a summary now
RegenerateWitness ==
    /\ last.op = "post"
    /\ last.request.route = "/api/regenerate-summaries"
    /\ last.status = 200
    /\ \E k \in 1..Len(changelog) :
          /\ changelog[k].kind = "change"
          /\ changelog[k].summarySection = <<>>
          /\ files[FileName(changelog[k].timestamp, changelog[k].hash, "diff")].summary
                # Null

\* the run that returned saved a version: it reported a change or the
\* initial version
SavedVersion ==
    /\ RunReturned
    /\ (last'.result.changed \/ "initial" \in DOMAIN last'.result)

\* C25: a run that reports a change or the initial version leaves latest.txt
\* with the fetched text and metadata with exactly one entry more, the last
\* one, whose hash is the hash of latest.txt; so after every completed run
\* the hash of the last entry of metadata is the hash of latest.txt
LastVersionIsLatest ==
    [][/\ SavedVersion =>
            /\ getContentHash(latest') = last'.result.hash
            /\ Len(metadata') = Len(metadata) + 1
            /\ SubSeq(metadata', 1, Len(metadata)) = metadata
            /\ metadata'[Len(metadata')].hash = getContentHash(latest')
       /\ RunReturned =>
            /\ metadata' # <<>>
            /\ metadata'[Len(metadata')].hash = getContentHash(latest')]_vars

\* a run has reported a change after an earlier version was saved
LastVersionIsLatestWitness ==
    /\ last.op = "monitor"
    /\ last.status = 200
    /\ last.result.changed
    /\ Len(metadata) >= 2
    /\ metadata[Len(metadata)].hash = getContentHash(latest)
    /\ metadata[Len(metadata) - 1].hash # getContentHash(latest)

\* the record of a run whose fetch failed
IsFailedRun(l) == l.op \in {"monitor", "post"} /\ l.status = 500

\* C26: a run whose fetch fails changes neither latest.txt nor any version
\* or diff file nor metadata.json nor CHANGELOG.md, and the successful run
\* that follows it compares the page with the version that was the latest
\* before the failure
FailedFetchChangesNothing ==
    [][/\ IsFailedRun(last') => UNCHANGED <<latest, files, metadata, changelog>>
       /\ (IsFailedRun(last) /\ RunReturned) =>
            /\ last'.result.changed <=>
                  /\ ~NoPreviousContent(latest)
                  /\ last'.result.hash # getContentHash(latest)
            /\ last'.result.changed =>
                  files'[FileName(clock', last'.result.hash, "diff")].paragraphs
                      = <<latest, latest'>>]_vars

\* a fetch has failed after a version was saved
FailedFetchWitness ==
    /\ IsFailedRun(last)
    /\ latest \notin {Absent, ""}
    /\ metadata # <<>>
    /\ changelog # NoChangelog

\* the section of the changelog is an entry of the historical section
IsArchived(section) == section.kind \in {"archived initial", "archived change"}

\* the section is an entry written by a monitor run
IsLive(section) == section.kind \in {"initial", "change"}

\* C27: in the changelog every historical (Archived) entry comes before
\* every live-monitoring entry, the live entries that monitor runs add
\* after the backfill included
HistoricalBeforeLive ==
    \A a, b \in 1..Len(changelog) :
        (IsArchived(changelog[a]) /\ IsLive(changelog[b])) => a < b

\* the entries of a metadata array
Entries(versions) == {versions[k] : k \in 1..Len(versions)}

\* the file is the same in both sets of files, or in neither
SameFile(before, after, name) ==
    /\ name \in DOMAIN after <=> name \in DOMAIN before
    /\ name \in DOMAIN before => after[name] = before[name]

MetadataAgain == MergeVersions(metadata, BackfillVersions(Ascending(last.fetched)))

ChangelogAgain ==
    LET snapshots == Ascending(last.fetched)
        changes == BackfillChanges(snapshots)
    IN  IF changes # <<>>
        THEN updateChangelogWithHistory(changelog, changes, BackfillVersions(snapshots)[1])
        ELSE changelog

\* the number of 'Historical Changes (from Wayback Machine)' sections
HistoricalSections(sections) ==
    Cardinality({k \in 1..Len(sections) : sections[k] = HistoricalHeading})

IsSortedByTimestamp(versions) ==
    \A k \in 1..(Len(versions) - 1) : versions[k].timestamp <= versions[k + 1].timestamp

\* C30 as stated: a second backfill over the same snapshots adds no entry
\* to metadata.versions, leaves it sorted by ascending timestamp and leaves
\* CHANGELOG.md with exactly one historical section
SecondBackfillLeavesOneSection ==
    last.op = "backfill" =>
        /\ Len(MetadataAgain) = Len(metadata)
        /\ IsSortedByTimestamp(MetadataAgain)
        /\ HistoricalSections(ChangelogAgain) = 1

\* C30: a second backfill over the same snapshots leaves metadata.versions
\* as it is, sorted by ascending timestamp, and leaves CHANGELOG.md as it
\* is, with one historical section at most, and with exactly one when the
\* backfill found a change between two snapshots
SecondBackfillChangesNothing ==
    last.op = "backfill" =>
        /\ MetadataAgain = metadata
        /\ IsSortedByTimestamp(metadata)
        /\ ChangelogAgain = changelog
        /\ HistoricalSections(changelog) <= 1
        /\ last.found > 0 => HistoricalSections(changelog) = 1

\* a backfill that found two changes, in a store with a version of a
\* monitor run and a changelog with the historical section
SecondBackfillWitness ==
    /\ last.op = "backfill"
    /\ last.found = 2
    /\ \E k \in 1..Len(metadata) : metadata[k].timestamp > 0
    /\ HistoricalSections(changelog) = 1
    /\ \E k \in 1..Len(changelog) : IsLive(changelog[k])
    /\ MetadataAgain = metadata
    /\ ChangelogAgain = changelog

\* both calls have returned
BothReturned == \A p \in Calls : calls[p].pc = "returned"

\* the positions of the metadata entries for the text of the page
EntriesForPage(versions) ==
    {k \in 1..Len(versions) : versions[k].hash = getContentHash(Page)}

\* the positions of the changelog entries for the text of the page
SectionsForPage(sections) ==
    {k \in 1..Len(sections) :
        /\ sections[k].kind = "change"
        /\ sections[k].hash = getContentHash(Page)}

\* the call saved a version
SavedByCall(p) ==
    calls[p].result # <<>>
        /\ (calls[p].result[1].changed \/ "initial" \in DOMAIN calls[p].result[1])

\* C29: two calls of runMonitor overlap while the page differs from
\* latest.txt; when both have returned, metadata.versions holds exactly one
\* new entry for the new text, CHANGELOG.md holds exactly one new entry for
\* it, and the entry each call wrote to metadata.json is there
OverlapRecordsChangeOnce ==
    (BothReturned /\ last.latest = "A") =>
        /\ Len(metadata) = Len(last.metadata) + 1
        /\ Cardinality(EntriesForPage(metadata)) = 1
        /\ Len(changelog) = Len(last.changelog) + 1
        /\ Cardinality(SectionsForPage(changelog)) = 1
        /\ \A p \in Calls :
              SavedByCall(p) =>
                  VersionEntry(calls[p].timestamp, getContentHash(Page))
                      \in Entries(metadata)

====
